---- MODULE Spec2Model ----
(***************************************************************************)
(* Control plane of the multi-tenant hosting platform: the namespace       *)
(* access guard (app/main.py), the workload reconciler and the blue-green  *)
(* controller (app/k8s_ops.py), driven by the HTTP handlers of app/main.py *)
(* against a cluster that holds Deployments and Services.                  *)
(* Requests are handled one at a time in most specifications; the last    *)
(* ones let server processes interleave their calls on the cluster API.    *)
(***************************************************************************)
EXTENDS Integers, Sequences, FiniteSets, TLC

VARIABLES
    deps,   \* cluster: namespace -> (deployment name -> Deployment object)
    svcs,   \* cluster: namespace -> (service name -> Service object)
    last,   \* the request handled last: its inputs, outcome and backend calls
    prev,   \* summary of the request handled before it
    inflight, \* per server process: the request it is in the middle of
    fault,  \* the error the cluster API answers to one call of the last request
    nss,    \* cluster: tenant namespace -> the bundle objects it holds
    tenants, \* store: tenant id -> Tenant row
    nextId, \* store: the id the next Tenant row gets
    runs,   \* store: the ProvisioningRun rows, oldest first
    tasks,  \* the background tasks waiting to run (tenant ids)
    audit   \* store: the AuditLog rows written by the last operation

\* the tenant store, the tenant namespaces and the injected error
tenantVars == <<fault, nss, tenants, nextId, runs, tasks, audit>>

vars == <<deps, svcs, last, prev, inflight, tenantVars>>

-----------------------------------------------------------------------------
(* Bounds of the model *)

MaxReplicas == 2

-----------------------------------------------------------------------------
(* Values *)

None == "none"

TenantNs == "tenant-a"
OtherNs == "tenant-b"
DefaultNs == "default"

\* namespaces of the cluster; a principal may name any of GuardNamespaces
Namespaces == {TenantNs, DefaultNs}

GuardNamespaces == {TenantNs, OtherNs, DefaultNs}

Apps == {"web"}

PreviewName(app_label) == app_label \o "-preview"

DepNames == Apps \cup {PreviewName(a) : a \in Apps}

\* the order in which a list call returns the Deployments of a namespace
DepOrder == <<"web", "web-preview">>

Ports == {80, 3000}

ReplicaRange == 1..MaxReplicas

\* role strings a token can carry, and their lower-case form
RoleStrings == {"user", "admin", "platform_admin", "PLATFORM_ADMIN", "pending_user"}

Lower(r) == IF r = "PLATFORM_ADMIN" THEN "platform_admin" ELSE r

\* python's `a or b` on optional strings
Or(a, b) == IF a # None THEN a ELSE b

\* get_namespace(): the platform's own namespace
get_namespace == DefaultNs

\* the authenticated principals that issue requests
Principals ==
    { [role |-> "user", k8s_namespace |-> TenantNs] }

-----------------------------------------------------------------------------
(* Namespace access guard *)

Forbidden == "Forbidden"

\* variant: the non-privileged branch trusts the requested namespace
verify_namespace_access_trusting(ctx, requested_ns) ==
    LET user_ns == ctx.k8s_namespace
        user_role == Lower(ctx.role)
        is_admin == user_role \in {"admin", "platform_admin"}
    IN  IF ~is_admin
        THEN Or(requested_ns, user_ns)
        ELSE Or(requested_ns, user_ns)

\* variant: the privileged branch prefers the bound namespace
verify_namespace_access_bound_first(ctx, requested_ns) ==
    LET user_ns == ctx.k8s_namespace
        user_role == Lower(ctx.role)
        is_admin == user_role \in {"admin", "platform_admin"}
    IN  IF ~is_admin
        THEN IF requested_ns # None /\ requested_ns # user_ns
             THEN Forbidden
             ELSE Or(user_ns, requested_ns)
        ELSE Or(user_ns, requested_ns)

verify_namespace_access(ctx, requested_ns) ==
    LET user_ns == ctx.k8s_namespace
        user_role == Lower(ctx.role)
        is_admin == user_role \in {"admin", "platform_admin"}
    IN  IF ~is_admin
        THEN IF requested_ns # None /\ requested_ns # user_ns
             THEN Forbidden
             ELSE Or(user_ns, requested_ns)
        ELSE Or(requested_ns, user_ns)

-----------------------------------------------------------------------------
(* AppSpec properties (app/models.py) *)

effective_app_label(spec) == Or(spec.app_label, spec.name)

effective_service_name(spec) == Or(spec.service_name, spec.name)

effective_port(spec) ==
    LET p == IF spec.port # 0 THEN spec.port ELSE 8080
    IN  IF p < 1024 THEN 8080 ELSE p

\* the request bodies the handlers accept
AppSpecs ==
    [name : Apps, app_label : {None}, service_name : {None},
     namespace : Namespaces, port : Ports, replicas : ReplicaRange]

NameNSs == [name : Apps, namespace : Namespaces \cup {None}]

ScaleRequests == [name : DepNames, replicas : ReplicaRange, namespace : Namespaces]

-----------------------------------------------------------------------------
(* Backend (cluster) primitives *)

Call(verb, kind, ns, name) == [verb |-> verb, kind |-> kind, ns |-> ns, name |-> name]

Exists(objs, ns, name) == name \in DOMAIN objs[ns]

\* create or replace-by-merge of one object of a namespace
Put(objs, ns, name, obj) == [objs EXCEPT ![ns] = (name :> obj) @@ @]

\* the Deployment object built from a spec: metadata labels, pod-template
\* labels and replica count
DeploymentBody(app_label, role, spec) ==
    [app |-> app_label, role |-> role, trole |-> role,
     replicas |-> IF spec.replicas # 0 THEN spec.replicas ELSE 1]

-----------------------------------------------------------------------------
(* Workload reconciler *)

\* variant: an update of an existing Deployment is rolled out next to it
upsert_deployment_side_by_side(D, spec) ==
    LET ns == Or(spec.namespace, get_namespace)
        name == effective_app_label(spec)
        body == DeploymentBody(name, "active", spec)
    IN  [deps |-> IF Exists(D, ns, name)
                  THEN Put(D, ns, PreviewName(name), body)
                  ELSE Put(D, ns, name, body),
         calls |-> <<Call("read", "deployment", ns, name),
                     IF Exists(D, ns, name)
                     THEN Call("create", "deployment", ns, PreviewName(name))
                     ELSE Call("create", "deployment", ns, name)>>,
         result |-> "ok"]

upsert_deployment(D, spec) ==
    LET ns == Or(spec.namespace, get_namespace)
        name == effective_app_label(spec)
        body == DeploymentBody(name, "active", spec)
    IN  [deps |-> Put(D, ns, name, body),
         calls |-> <<Call("read", "deployment", ns, name),
                     IF Exists(D, ns, name)
                     THEN Call("patch", "deployment", ns, name)
                     ELSE Call("create", "deployment", ns, name)>>,
         result |-> "ok"]

\* create_ingress_for_app reads the undefined name ctx before any backend
\* call, and upsert_service swallows the error: no call, no effect
create_ingress_for_app(app_name, namespace) == <<>>

\* variant: an existing Service is overwritten with the body of a new one
upsert_service_overwrite(S, spec, ctx) ==
    LET role == ctx.role
        ns == Or(ctx.k8s_namespace, Or(spec.namespace, "default"))
        app_label == effective_app_label(spec)
        svc_name == effective_service_name(spec)
        port == effective_port(spec)
        denied == \/ (role = "platform_admin" /\ ns # "default")
                  \/ (role # "platform_admin" /\ ns = "default")
        found == Exists(S, ns, svc_name)
        created == [app |-> app_label, selApp |-> app_label, selRole |-> "active",
                    type |-> "ClusterIP", port |-> port, targetPort |-> port,
                    nodePort |-> 0]
    IN  IF denied
        THEN [svcs |-> S, calls |-> <<>>, result |-> "PermissionError"]
        ELSE [svcs |-> Put(S, ns, svc_name, created),
              calls |-> <<Call("read", "service", ns, svc_name),
                          IF found
                          THEN Call("patch", "service", ns, svc_name)
                          ELSE Call("create", "service", ns, svc_name)>>
                        \o create_ingress_for_app(app_label, ns),
              result |-> "ok"]

upsert_service(S, spec, ctx) ==
    LET role == ctx.role
        ns == Or(ctx.k8s_namespace, Or(spec.namespace, "default"))
        app_label == effective_app_label(spec)
        svc_name == effective_service_name(spec)
        port == effective_port(spec)
        denied == \/ (role = "platform_admin" /\ ns # "default")
                  \/ (role # "platform_admin" /\ ns = "default")
        found == Exists(S, ns, svc_name)
        existing == S[ns][svc_name]
        svc_type == Or(existing.type, "ClusterIP")
        cluster_port == existing.port
        node_port == IF svc_type = "NodePort" THEN existing.nodePort ELSE 0
        \* merge patch: a nodePort left out of the body keeps its value
        patched == [app |-> app_label, selApp |-> app_label, selRole |-> "active",
                    type |-> svc_type, port |-> cluster_port, targetPort |-> port,
                    nodePort |-> IF node_port # 0 THEN node_port
                                 ELSE existing.nodePort]
        created == [app |-> app_label, selApp |-> app_label, selRole |-> "active",
                    type |-> "ClusterIP", port |-> port, targetPort |-> port,
                    nodePort |-> 0]
    IN  IF denied
        THEN [svcs |-> S, calls |-> <<>>, result |-> "PermissionError"]
        ELSE [svcs |-> Put(S, ns, svc_name, IF found THEN patched ELSE created),
              calls |-> <<Call("read", "service", ns, svc_name),
                          IF found
                          THEN Call("patch", "service", ns, svc_name)
                          ELSE Call("create", "service", ns, svc_name)>>
                        \o create_ingress_for_app(app_label, ns),
              result |-> "ok"]

\* variant: scaling re-applies the Deployment's default role labels
scale_relabel(D, name, replicas, namespace) ==
    LET ns == Or(namespace, get_namespace)
    IN  [deps |-> IF Exists(D, ns, name)
                  THEN Put(D, ns, name, [D[ns][name] EXCEPT !.replicas = replicas,
                                                            !.role = "active",
                                                            !.trole = "active"])
                  ELSE D,
         calls |-> <<Call("patch", "deployment-scale", ns, name)>>,
         result |-> IF Exists(D, ns, name) THEN "ok" ELSE "NotFound"]

scale(D, name, replicas, namespace) ==
    LET ns == Or(namespace, get_namespace)
    IN  [deps |-> IF Exists(D, ns, name)
                  THEN Put(D, ns, name, [D[ns][name] EXCEPT !.replicas = replicas])
                  ELSE D,
         calls |-> <<Call("patch", "deployment-scale", ns, name)>>,
         result |-> IF Exists(D, ns, name) THEN "ok" ELSE "NotFound"]

-----------------------------------------------------------------------------
(* Blue-green controller *)

_find_deployments_by_app(D, ns, app_label) ==
    SelectSeq(DepOrder, LAMBDA n : Exists(D, ns, n) /\ D[ns][n].app = app_label)

\* the loop `for d in deps: if role == r: found = d` keeps the last match
LastWithRole(D, ns, items, role) ==
    LET idx == {i \in 1..Len(items) : D[ns][items[i]].role = role}
    IN  IF idx = {} THEN None
        ELSE items[CHOOSE i \in idx : \A j \in idx : j <= i]

\* variant: only the metadata label is patched, not the pod template
_patch_deploy_labels_meta_only(D, ns, dep_name, role) ==
    Put(D, ns, dep_name, [D[ns][dep_name] EXCEPT !.role = role])

_patch_deploy_labels(D, ns, dep_name, role) ==
    Put(D, ns, dep_name, [D[ns][dep_name] EXCEPT !.role = role, !.trole = role])

_scale_deploy(D, ns, dep_name, replicas) ==
    Put(D, ns, dep_name, [D[ns][dep_name] EXCEPT !.replicas = replicas])

\* variant: while a preview exists, a prepare is written to the main Deployment
bg_prepare_in_place(D, spec) ==
    LET ns == Or(spec.namespace, get_namespace)
        app_label == effective_app_label(spec)
        name == IF Exists(D, ns, PreviewName(app_label))
                THEN app_label ELSE PreviewName(app_label)
        body == DeploymentBody(app_label, "preview", spec)
    IN  [deps |-> Put(D, ns, name, body),
         calls |-> <<Call("read", "deployment", ns, name),
                     IF Exists(D, ns, name)
                     THEN Call("patch", "deployment", ns, name)
                     ELSE Call("create", "deployment", ns, name)>>,
         result |-> "ok", promoted |-> None, demoted |-> None]

bg_prepare(D, spec) ==
    LET ns == Or(spec.namespace, get_namespace)
        app_label == effective_app_label(spec)
        name == PreviewName(app_label)
        body == DeploymentBody(app_label, "preview", spec)
    IN  [deps |-> Put(D, ns, name, body),
         calls |-> <<Call("read", "deployment", ns, name),
                     IF Exists(D, ns, name)
                     THEN Call("patch", "deployment", ns, name)
                     ELSE Call("create", "deployment", ns, name)>>,
         result |-> "ok", promoted |-> None, demoted |-> None]

\* variant: the previously active Deployment is not demoted
bg_promote_keep_active(D, name, namespace) ==
    LET ns == Or(namespace, get_namespace)
        items == _find_deployments_by_app(D, ns, name)
        preview == LastWithRole(D, ns, items, "preview")
        active == LastWithRole(D, ns, items, "active")
        list == <<Call("list", "deployment", ns, name)>>
    IN  IF preview = None
        THEN [deps |-> D, calls |-> list, result |-> "NotFound",
              promoted |-> None, demoted |-> None]
        ELSE [deps |-> _patch_deploy_labels(D, ns, preview, "active"),
              calls |-> list \o <<Call("patch", "deployment", ns, preview)>>,
              result |-> IF active # None THEN "AttributeError" ELSE "ok",
              promoted |-> preview, demoted |-> active]

\* variant: the active Deployment is demoted before the preview is looked for
bg_promote_demote_first(D, name, namespace) ==
    LET ns == Or(namespace, get_namespace)
        items == _find_deployments_by_app(D, ns, name)
        preview == LastWithRole(D, ns, items, "preview")
        active == LastWithRole(D, ns, items, "active")
        list == <<Call("list", "deployment", ns, name)>>
        D0 == IF active # None THEN _patch_deploy_labels(D, ns, active, "idle") ELSE D
    IN  IF preview = None
        THEN [deps |-> D0, calls |-> list, result |-> "NotFound",
              promoted |-> None, demoted |-> None]
        ELSE [deps |-> _patch_deploy_labels(D0, ns, preview, "active"),
              calls |-> list \o <<Call("patch", "deployment", ns, preview)>>,
              result |-> IF active # None THEN "AttributeError" ELSE "ok",
              promoted |-> preview, demoted |-> active]

\* variant: a missing preview is reported with a note instead of an error
bg_promote_note(D, name, namespace) ==
    LET ns == Or(namespace, get_namespace)
        items == _find_deployments_by_app(D, ns, name)
        preview == LastWithRole(D, ns, items, "preview")
        active == LastWithRole(D, ns, items, "active")
        list == <<Call("list", "deployment", ns, name)>>
        D1 == _patch_deploy_labels(D, ns, preview, "active")
        D2 == IF active # None THEN _patch_deploy_labels(D1, ns, active, "idle") ELSE D1
    IN  IF preview = None
        THEN [deps |-> D, calls |-> list, result |-> "ok",
              promoted |-> None, demoted |-> None]
        ELSE [deps |-> D2,
              calls |-> list \o <<Call("patch", "deployment", ns, preview)>>,
              result |-> IF active # None THEN "AttributeError" ELSE "ok",
              promoted |-> preview, demoted |-> active]

bg_promote(D, name, namespace) ==
    LET ns == Or(namespace, get_namespace)
        items == _find_deployments_by_app(D, ns, name)
        preview == LastWithRole(D, ns, items, "preview")
        active == LastWithRole(D, ns, items, "active")
        list == <<Call("list", "deployment", ns, name)>>
        D1 == _patch_deploy_labels(D, ns, preview, "active")
        D2 == IF active # None THEN _patch_deploy_labels(D1, ns, active, "idle") ELSE D1
    IN  IF preview = None
        THEN [deps |-> D, calls |-> list, result |-> "NotFound",
              promoted |-> None, demoted |-> None]
        ELSE [deps |-> D2,
              calls |-> list \o <<Call("patch", "deployment", ns, preview)>>
                        \o (IF active # None
                            THEN <<Call("patch", "deployment", ns, active)>>
                            ELSE <<>>),
              \* getattr(active, "metadata", {}).get("name"): V1ObjectMeta has
              \* no get(), so the return statement raises when active was found
              result |-> IF active # None THEN "AttributeError" ELSE "ok",
              promoted |-> preview, demoted |-> active]

\* variant: a rollback with nothing to swap is reported as an error
bg_rollback_strict(D, name, namespace) ==
    LET ns == Or(namespace, get_namespace)
        items == _find_deployments_by_app(D, ns, name)
        preview == LastWithRole(D, ns, items, "preview")
        active == LastWithRole(D, ns, items, "active")
        list == <<Call("list", "deployment", ns, name)>>
    IN  IF active # None /\ preview # None
        THEN [deps |-> _patch_deploy_labels(
                           _patch_deploy_labels(D, ns, active, "preview"),
                           ns, preview, "active"),
              calls |-> list \o <<Call("patch", "deployment", ns, active),
                                  Call("patch", "deployment", ns, preview)>>,
              result |-> "ok", promoted |-> preview, demoted |-> active]
        ELSE IF active = None /\ preview # None
        THEN [deps |-> _patch_deploy_labels(D, ns, preview, "active"),
              calls |-> list \o <<Call("patch", "deployment", ns, preview)>>,
              result |-> "ok", promoted |-> preview, demoted |-> None]
        ELSE [deps |-> D, calls |-> list, result |-> "NotFound",
              promoted |-> None, demoted |-> None]

bg_rollback(D, name, namespace) ==
    LET ns == Or(namespace, get_namespace)
        items == _find_deployments_by_app(D, ns, name)
        preview == LastWithRole(D, ns, items, "preview")
        active == LastWithRole(D, ns, items, "active")
        list == <<Call("list", "deployment", ns, name)>>
    IN  IF active # None /\ preview # None
        THEN [deps |-> _patch_deploy_labels(
                           _patch_deploy_labels(D, ns, active, "preview"),
                           ns, preview, "active"),
              calls |-> list \o <<Call("patch", "deployment", ns, active),
                                  Call("patch", "deployment", ns, preview)>>,
              result |-> "ok", promoted |-> preview, demoted |-> active]
        ELSE IF active = None /\ preview # None
        THEN [deps |-> _patch_deploy_labels(D, ns, preview, "active"),
              calls |-> list \o <<Call("patch", "deployment", ns, preview)>>,
              result |-> "ok", promoted |-> preview, demoted |-> None]
        ELSE [deps |-> D, calls |-> list, result |-> "ok",
              promoted |-> None, demoted |-> None]

-----------------------------------------------------------------------------
(* Status reporter: read-only *)

get_service_selector_calls(S, app_label, ns) ==
    <<Call("read", "service", ns, app_label)>>
    \o (IF Exists(S, ns, app_label) THEN <<>>
        ELSE <<Call("list", "service", ns, app_label)>>)

get_preview_ready_calls(app_label, ns) == <<Call("list", "deployment", ns, app_label)>>

RECURSIVE StatusItemCalls(_, _, _, _)
StatusItemCalls(D, S, ns, items) ==
    IF items = <<>> THEN <<>>
    ELSE LET app_label == D[ns][Head(items)].app
         IN  get_service_selector_calls(S, app_label, ns)
             \o get_preview_ready_calls(app_label, ns)
             \o StatusItemCalls(D, S, ns, Tail(items))

list_status(D, S, name, namespace) ==
    LET ns == Or(namespace, get_namespace)
        deployments ==
            IF name # None
            THEN (IF Exists(D, ns, name) THEN <<name>> ELSE <<>>)
            ELSE SelectSeq(DepOrder, LAMBDA n : Exists(D, ns, n))
    IN  [calls |-> <<Call(IF name # None THEN "read" ELSE "list",
                          "deployment", ns, Or(name, "*"))>>
                   \o StatusItemCalls(D, S, ns, deployments),
         items |-> deployments,
         result |-> "ok"]

-----------------------------------------------------------------------------
(* HTTP handlers (app/main.py).  Every handler turns any exception into a   *)
(* 500 response; log_event writes to the store only.                        *)

Request(op, ctx, name, reqNs, replicas, port, ns, r) ==
    [op |-> op, ctx |-> ctx, name |-> name, reqNs |-> reqNs,
     replicas |-> replicas, port |-> port, ns |-> ns,
     result |-> r.result, http |-> IF r.result = "ok" THEN 200 ELSE 500,
     calls |-> r.calls, promoted |-> r.promoted, demoted |-> r.demoted]

Outcome(result, calls) ==
    [result |-> result, calls |-> calls, promoted |-> None, demoted |-> None]

\* get_current_user: a token without sub or ns claim is answered 401
Unauthorized(op, ctx, name, reqNs) ==
    [op |-> op, ctx |-> ctx, name |-> name, reqNs |-> reqNs,
     replicas |-> 0, port |-> 0, ns |-> None,
     result |-> "Unauthorized", http |-> 401,
     calls |-> <<>>, promoted |-> None, demoted |-> None]

deploy_app(ctx, spec) ==
    LET user_role == Lower(ctx.role)
        token_ns == ctx.k8s_namespace
        unassigned == user_role # "platform_admin" /\ token_ns = None
        final_ns == IF user_role = "platform_admin"
                    THEN Or(spec.namespace, Or(token_ns, "default"))
                    ELSE token_ns
        spec2 == [spec EXCEPT !.namespace = final_ns]
        guard == verify_namespace_access(ctx, spec2.namespace)
        d == upsert_deployment(deps, spec2)
        s == upsert_service(svcs, spec2, ctx)
    IN  IF unassigned \/ guard = Forbidden
        THEN /\ UNCHANGED <<deps, svcs>>
             /\ last' = Request("deploy", ctx, spec.name, spec.namespace,
                                spec.replicas, spec.port, None,
                                Outcome(IF unassigned THEN "BadRequest" ELSE Forbidden,
                                        <<>>))
        ELSE /\ deps' = d.deps
             /\ svcs' = s.svcs
             /\ last' = Request("deploy", ctx, spec.name, spec.namespace,
                                spec.replicas, spec.port, final_ns,
                                Outcome(s.result, d.calls \o s.calls))

scale_app(ctx, req) ==
    LET ns == verify_namespace_access(ctx, None)
        r == scale(deps, req.name, req.replicas, ns)
    IN  IF ns = Forbidden
        THEN /\ UNCHANGED <<deps, svcs>>
             /\ last' = Request("scale", ctx, req.name, req.namespace,
                                req.replicas, 0, None, Outcome(Forbidden, <<>>))
        ELSE /\ deps' = r.deps
             /\ UNCHANGED svcs
             /\ last' = Request("scale", ctx, req.name, req.namespace,
                                req.replicas, 0, Or(ns, get_namespace),
                                Outcome(r.result, r.calls))

apps_status(ctx, name) ==
    LET ns == verify_namespace_access(ctx, None)
        r == list_status(deps, svcs, name, ns)
    IN  /\ UNCHANGED <<deps, svcs>>
        /\ last' = IF ns = Forbidden
                   THEN Request("status", ctx, name, None, 0, 0, None,
                                Outcome(Forbidden, <<>>))
                   ELSE Request("status", ctx, name, None, 0, 0,
                                Or(ns, get_namespace), Outcome(r.result, r.calls))

bluegreen_prepare(ctx, spec) ==
    LET r == bg_prepare(deps, spec)
    IN  /\ deps' = r.deps
        /\ UNCHANGED svcs
        /\ last' = Request("prepare", ctx, spec.name, spec.namespace,
                           spec.replicas, spec.port,
                           Or(spec.namespace, get_namespace), r)

\* variant: promote also re-points the Service at the promoted Deployment
bluegreen_promote_repoint(user, req) ==
    LET ns == user.k8s_namespace
        r == bg_promote(deps, req.name, ns)
    IN  IF ns = None
        THEN /\ UNCHANGED <<deps, svcs>>
             /\ last' = Unauthorized("promote", user, req.name, req.namespace)
        ELSE /\ deps' = r.deps
             /\ svcs' = IF r.promoted # None /\ Exists(svcs, ns, req.name)
                        THEN Put(svcs, ns, req.name,
                                 [svcs[ns][req.name] EXCEPT !.selRole = "preview"])
                        ELSE svcs
             /\ last' = Request("promote", user, req.name, req.namespace, 0, 0, ns, r)

bluegreen_promote(user, req) ==
    LET ns == user.k8s_namespace
        r == bg_promote(deps, req.name, ns)
    IN  IF ns = None
        THEN /\ UNCHANGED <<deps, svcs>>
             /\ last' = Unauthorized("promote", user, req.name, req.namespace)
        ELSE /\ deps' = r.deps
             /\ UNCHANGED svcs
             /\ last' = Request("promote", user, req.name, req.namespace, 0, 0, ns, r)

bluegreen_rollback(user, req) ==
    LET ns == user.k8s_namespace
        r == bg_rollback(deps, req.name, ns)
    IN  IF ns = None
        THEN /\ UNCHANGED <<deps, svcs>>
             /\ last' = Unauthorized("rollback", user, req.name, req.namespace)
        ELSE /\ deps' = r.deps
             /\ UNCHANGED svcs
             /\ last' = Request("rollback", user, req.name, req.namespace, 0, 0, ns, r)

-----------------------------------------------------------------------------
(* The platform: requests arrive one at a time against an empty cluster *)

NoObjects == [ns \in Namespaces |-> <<>>]

\* the server processes that handle requests side by side
Workers == {"w1", "w2"}

NoSpec ==
    [name |-> None, app_label |-> None, service_name |-> None,
     namespace |-> None, port |-> 0, replicas |-> 0]

\* a process between requests
Resting ==
    [op |-> "none", pc |-> "idle", ctx |-> [role |-> None, k8s_namespace |-> None],
     name |-> None, ns |-> None, spec |-> NoSpec,
     found |-> FALSE, svcFound |-> FALSE,
     preview |-> None, active |-> None, exact |-> FALSE, result |-> None]

Quiet == [w \in Workers |-> Resting]

\* no injected error
NoFault == [verb |-> "none", kind |-> "none", status |-> 0]

\* an empty store, a cluster without tenant namespaces, no error injected
\* the store after startup: init_db() has seeded the tenant "Demo"
init_db ==
    /\ fault = NoFault
    /\ nss = <<>>
    /\ tenants = (1 :> [name |-> "Demo", k8s_namespace |-> "default",
                        status |-> "active"])
    /\ nextId = 2
    /\ runs = <<>>
    /\ tasks = <<>>
    /\ audit = <<>>

NoRequest ==
    [op |-> "none", ctx |-> [role |-> None, k8s_namespace |-> None],
     name |-> None, reqNs |-> None, replicas |-> 0, port |-> 0, ns |-> None,
     result |-> None, http |-> 0, calls |-> <<>>,
     promoted |-> None, demoted |-> None]

\* what is remembered of the request before the last one: its kind, its
\* inputs and its outcome
Summary(r) ==
    [op |-> r.op, name |-> r.name, replicas |-> r.replicas, port |-> r.port,
     result |-> r.result, promoted |-> r.promoted, demoted |-> r.demoted]

Init ==
    /\ inflight = Quiet
    /\ init_db
    /\ deps = NoObjects
    /\ svcs = NoObjects
    /\ last = NoRequest
    /\ prev = Summary(NoRequest)

\* requests that name the principal's own namespace (or none)
DeployApp ==
    /\ \E ctx \in Principals, spec \in AppSpecs :
          /\ spec.namespace = ctx.k8s_namespace
          /\ deploy_app(ctx, spec)
    /\ prev' = Summary(last)
    /\ UNCHANGED <<inflight, tenantVars>>

ScaleApp ==
    /\ \E ctx \in Principals, req \in ScaleRequests :
          /\ req.namespace = ctx.k8s_namespace
          /\ scale_app(ctx, req)
    /\ prev' = Summary(last)
    /\ UNCHANGED <<inflight, tenantVars>>

AppsStatus ==
    /\ \E ctx \in Principals, name \in DepNames \cup {None} : apps_status(ctx, name)
    /\ prev' = Summary(last)
    /\ UNCHANGED <<inflight, tenantVars>>

BluegreenPrepare ==
    /\ \E ctx \in Principals, spec \in AppSpecs :
          /\ spec.namespace = ctx.k8s_namespace
          /\ bluegreen_prepare(ctx, spec)
    /\ prev' = Summary(last)
    /\ UNCHANGED <<inflight, tenantVars>>

BluegreenPromote ==
    /\ \E user \in Principals, req \in NameNSs :
          /\ req.namespace \in {None, user.k8s_namespace}
          /\ bluegreen_promote(user, req)
    /\ prev' = Summary(last)
    /\ UNCHANGED <<inflight, tenantVars>>

BluegreenRollback ==
    /\ \E user \in Principals, req \in NameNSs :
          /\ req.namespace \in {None, user.k8s_namespace}
          /\ bluegreen_rollback(user, req)
    /\ prev' = Summary(last)
    /\ UNCHANGED <<inflight, tenantVars>>

Next ==
    \/ DeployApp
    \/ ScaleApp
    \/ AppsStatus
    \/ BluegreenPrepare
    \/ BluegreenPromote
    \/ BluegreenRollback

Spec == Init /\ [][Next]_vars

-----------------------------------------------------------------------------
(* Blue-green rollouts of an application that was deployed (or not) before  *)
(* the rollout calls start: only prepare, promote and rollback are issued.  *)

InitBG ==
    /\ inflight = Quiet
    /\ init_db
    /\ last = NoRequest
    /\ prev = Summary(NoRequest)
    /\ \E deployed \in BOOLEAN, ctx \in Principals, spec \in AppSpecs :
          LET spec2 == [spec EXCEPT !.namespace = ctx.k8s_namespace]
          IN  /\ spec.namespace = ctx.k8s_namespace
              /\ deps = IF deployed THEN upsert_deployment(NoObjects, spec2).deps
                        ELSE NoObjects
              /\ svcs = IF deployed THEN upsert_service(NoObjects, spec2, ctx).svcs
                        ELSE NoObjects

NextBG ==
    \/ BluegreenPrepare
    \/ BluegreenPromote
    \/ BluegreenRollback

SpecBG == InitBG /\ [][NextBG]_vars

-----------------------------------------------------------------------------
(* Namespace isolation: besides the requests above, requests that name a    *)
(* namespace the principal is not bound to.  A request body that leaves the *)
(* namespace out names DefaultNs (app/models.py, DEFAULT_NS).               *)

ForeignDeployApp ==
    /\ \E ctx \in Principals, spec \in AppSpecs :
          /\ spec.namespace # ctx.k8s_namespace
          /\ deploy_app(ctx, spec)
    /\ prev' = Summary(last)
    /\ UNCHANGED <<inflight, tenantVars>>

ForeignScaleApp ==
    /\ \E ctx \in Principals, req \in ScaleRequests :
          /\ req.namespace # ctx.k8s_namespace
          /\ scale_app(ctx, req)
    /\ prev' = Summary(last)
    /\ UNCHANGED <<inflight, tenantVars>>

ForeignBluegreenPrepare ==
    /\ \E ctx \in Principals, spec \in AppSpecs :
          /\ spec.namespace # ctx.k8s_namespace
          /\ bluegreen_prepare(ctx, spec)
    /\ prev' = Summary(last)
    /\ UNCHANGED <<inflight, tenantVars>>

ForeignBluegreenPromote ==
    /\ \E user \in Principals, req \in NameNSs :
          /\ req.namespace \notin {None, user.k8s_namespace}
          /\ bluegreen_promote(user, req)
    /\ prev' = Summary(last)
    /\ UNCHANGED <<inflight, tenantVars>>

ForeignBluegreenRollback ==
    /\ \E user \in Principals, req \in NameNSs :
          /\ req.namespace \notin {None, user.k8s_namespace}
          /\ bluegreen_rollback(user, req)
    /\ prev' = Summary(last)
    /\ UNCHANGED <<inflight, tenantVars>>

NextIso ==
    \/ Next
    \/ ForeignDeployApp
    \/ ForeignScaleApp
    \/ ForeignBluegreenPrepare
    \/ ForeignBluegreenPromote
    \/ ForeignBluegreenRollback

SpecIso == Init /\ [][NextIso]_vars

-----------------------------------------------------------------------------
(* The reconciler in a namespace where a Service of the application's name  *)
(* may exist already, made by an operator with its own type and ports:      *)
(* upsert_service reads the type, port and node port of what it finds.      *)

ServiceTypes == {"ClusterIP", "NodePort", "LoadBalancer"}

ServicePorts == {80, 3000}

NodePortOf(svc_type) == IF svc_type = "ClusterIP" THEN 0 ELSE 30080

ExistingServices ==
    { [app |-> None, selApp |-> a, selRole |-> None, type |-> t, port |-> p,
       targetPort |-> p, nodePort |-> NodePortOf(t)] :
         a \in Apps, t \in ServiceTypes, p \in ServicePorts }

InitAdopt ==
    /\ inflight = Quiet
    /\ init_db
    /\ deps = NoObjects
    /\ last = NoRequest
    /\ prev = Summary(NoRequest)
    /\ \/ svcs = NoObjects
       \/ \E svc \in ExistingServices : svcs = Put(NoObjects, TenantNs, svc.selApp, svc)

NextAdopt ==
    \/ DeployApp
    \/ ScaleApp

SpecAdopt == InitAdopt /\ [][NextAdopt]_vars

-----------------------------------------------------------------------------
(* The guard applied to every principal and requested namespace *)

GuardContexts == [role : RoleStrings, k8s_namespace : GuardNamespaces \cup {None}]

InitGuard ==
    /\ inflight = Quiet
    /\ init_db
    /\ deps = NoObjects
    /\ svcs = NoObjects
    /\ prev = Summary(NoRequest)
    /\ \E ctx \in GuardContexts, requested_ns \in GuardNamespaces \cup {None} :
          last = [NoRequest EXCEPT !.op = "input", !.ctx = ctx, !.reqNs = requested_ns]

VerifyNamespaceAccess ==
    /\ last.op = "input"
    /\ LET r == verify_namespace_access(last.ctx, last.reqNs)
       IN  last' = [last EXCEPT !.op = "verify", !.result = r,
                                !.http = IF r = Forbidden THEN 403 ELSE 200]
    /\ UNCHANGED <<deps, svcs, prev, inflight, tenantVars>>

NextGuard == VerifyNamespaceAccess

SpecGuard == InitGuard /\ [][NextGuard]_vars

-----------------------------------------------------------------------------
(* Properties *)

\* the Deployments of an application that carry a given role label
WithRole(D, ns, app, role) ==
    {n \in DOMAIN D[ns] : D[ns][n].app = app /\ D[ns][n].role = role}

\* the guard's own notion of a privileged principal
IsPrivileged(ctx) == Lower(ctx.role) \in {"admin", "platform_admin"}

RolloutOps == {"prepare", "promote", "rollback"}

\* C1: over every sequence of prepare, promote and rollback calls on an
\* application, after each call at most one of its Deployments has role=active.
C1_AtMostOneActive ==
    \A ns \in Namespaces, app \in Apps :
        Cardinality(WithRole(deps, ns, app, "active")) <= 1

\* a promote demoted the old active Deployment and exactly one is active
C1_Witness ==
    /\ last.op = "promote"
    /\ last.demoted # None
    /\ Cardinality(DOMAIN deps[last.ns]) = 2
    /\ Cardinality(WithRole(deps, last.ns, last.name, "active")) = 1

\* C2: over every sequence of deploy, prepare, promote and rollback calls, at
\* most one Deployment of an application has role=active and at most one has
\* role=preview; a deploy after a promote yields no second active Deployment.
C2_OneActiveOnePreview ==
    \A ns \in Namespaces, app \in Apps :
        /\ Cardinality(WithRole(deps, ns, app, "active")) <= 1
        /\ Cardinality(WithRole(deps, ns, app, "preview")) <= 1

\* C3: a deploy, scale, prepare, promote or rollback request of a
\* non-privileged principal that names a namespace other than the bound one
\* is rejected and makes no backend call.
C3_ForeignNamespaceRejected ==
    ( /\ last.op \in {"deploy", "scale"} \cup RolloutOps
      /\ ~IsPrivileged(last.ctx)
      /\ last.reqNs # None
      /\ last.reqNs # last.ctx.k8s_namespace )
    => (last.http # 200 /\ last.calls = <<>>)

\* C4: every backend call caused by a deploy, scale, status, prepare, promote
\* or rollback request of a non-privileged principal targets the principal's
\* bound namespace.
C4_CallsStayInBoundNamespace ==
    ( /\ last.op \in {"deploy", "scale", "status"} \cup RolloutOps
      /\ ~IsPrivileged(last.ctx) )
    => \A i \in 1..Len(last.calls) : last.calls[i].ns = last.ctx.k8s_namespace

C6_GuardPrivileged ==
    (last.op = "verify" /\ IsPrivileged(last.ctx))
    => /\ last.result # Forbidden
       /\ last.reqNs # None => last.result = last.reqNs
       /\ last.reqNs = None => last.result = last.ctx.k8s_namespace

\* the guard let a platform administrator name a namespace it is not bound to
C6_Witness ==
    /\ last.op = "verify"
    /\ Lower(last.ctx.role) = "platform_admin"
    /\ last.ctx.k8s_namespace = DefaultNs
    /\ last.reqNs = TenantNs
    /\ last.result = TenantNs

\* C7: a promote that finds no role=preview Deployment of the application
\* fails with NotFound and changes no Deployment and no Service.
C7_PromoteWithoutPreviewFailsClosed ==
    [][ ( /\ last'.op = "promote"
          /\ last'.ns # None
          /\ WithRole(deps, last'.ns, last'.name, "preview") = {} )
        => ( /\ last'.result = "NotFound"
             /\ deps' = deps
             /\ svcs' = svcs ) ]_vars

\* a promote was refused while the application had Deployments
C7_Witness ==
    /\ last.op = "promote"
    /\ last.result = "NotFound"
    /\ WithRole(deps, last.ns, last.name, "active") # {}
    /\ WithRole(deps, last.ns, last.name, "preview") = {}

\* the previous request was a promote that consumed the preview, and the
\* request that follows is a promote of the same application that finds none
SecondPromote ==
    /\ last.op = "promote"
    /\ last.promoted # None
    /\ last'.op = "promote"
    /\ last'.name = last.name
    /\ last'.ns = last.ns
    /\ WithRole(deps, last.ns, last.name, "preview") = {}

\* C8 (as stated): a second promote, after the first consumed the preview,
\* is a no-op that returns a descriptive result rather than an error.
C8_SecondPromoteReturnsResult ==
    [][ SecondPromote
        => (deps' = deps /\ svcs' = svcs /\ last'.result = "ok") ]_vars

\* C8 (amended): a second promote, after the first consumed the preview,
\* changes nothing in the cluster and fails with NotFound.
C8_SecondPromoteNotFound ==
    [][ SecondPromote
        => ( /\ deps' = deps
             /\ svcs' = svcs
             /\ last'.result = "NotFound"
             /\ last'.http = 500 ) ]_vars

\* a promote was refused right after a promote that had promoted the preview
C8_Witness ==
    /\ prev.op = "promote"
    /\ prev.promoted # None
    /\ last.op = "promote"
    /\ last.result = "NotFound"
    /\ WithRole(deps, last.ns, last.name, "preview") = {}

\* C9: a promote that finds a preview Deployment P and an active Deployment A
\* leaves P with role=active and A with role=idle, in the metadata labels and
\* in the pod-template labels, and changes the role of no other Deployment.
C9_PromoteSwapsRoles ==
    [][ (last'.op = "promote" /\ last'.promoted # None /\ last'.demoted # None)
        => LET ns == last'.ns
               P == last'.promoted
               A == last'.demoted
           IN  /\ deps[ns][P].role = "preview"
               /\ deps[ns][A].role = "active"
               /\ deps'[ns][P].role = "active"
               /\ deps'[ns][P].trole = "active"
               /\ deps'[ns][A].role = "idle"
               /\ deps'[ns][A].trole = "idle"
               /\ \A m \in Namespaces :
                     /\ DOMAIN deps'[m] = DOMAIN deps[m]
                     /\ \A n \in DOMAIN deps[m] :
                           (m # ns \/ n \notin {P, A})
                           => /\ deps'[m][n].role = deps[m][n].role
                              /\ deps'[m][n].trole = deps[m][n].trole ]_vars

\* a promote found both a preview and an active Deployment
C9_Witness ==
    /\ last.op = "promote"
    /\ last.promoted # None
    /\ last.demoted # None
    /\ deps[last.ns][last.promoted].role = "active"

\* C10: after a promote, and after a rollback that swaps roles, the demoted
\* Deployment has replica count 0 and the one that became active has a
\* replica count of at least 1.
C10_DemotedScaledToZero ==
    ( /\ last.op \in {"promote", "rollback"}
      /\ last.promoted # None
      /\ last.demoted # None )
    => /\ deps[last.ns][last.demoted].replicas = 0
       /\ deps[last.ns][last.promoted].replicas >= 1

\* the calls of a request that address a Service
ServiceCalls(calls) == SelectSeq(calls, LAMBDA c : c.kind = "service")

\* the Deployments of an application that a rollback could make active
Demotable(D, ns, app) == WithRole(D, ns, app, "preview") \cup WithRole(D, ns, app, "idle")

\* C11: a rollback that finds an active Deployment and a counterpart with
\* role=preview or role=idle makes a counterpart active and the active one
\* non-active; a rollback right after a promote gives role=active back to
\* the Deployment the promote demoted.
C11_RollbackInvertsPromote ==
    [][ (last'.op = "rollback" /\ last'.ns # None)
        => LET ns == last'.ns
               app == last'.name
               A == WithRole(deps, ns, app, "active")
               C == Demotable(deps, ns, app)
           IN  /\ (A # {} /\ C # {})
                  => /\ \E c \in C : deps'[ns][c].role = "active"
                     /\ \A a \in A : deps'[ns][a].role # "active"
               /\ ( /\ last.op = "promote"
                    /\ last.name = app
                    /\ last.ns = ns
                    /\ last.promoted # None
                    /\ last.demoted # None )
                  => /\ deps'[ns][last.demoted].role = "active"
                     /\ deps'[ns][last.promoted].role # "active" ]_vars

\* C12: a rollback that finds no role=preview and no role=idle Deployment of
\* the application (only active ones, or none at all) returns its no-op
\* result without an error and changes no Deployment and no Service.
C12_RollbackWithoutCounterpartIsNoOp ==
    [][ ( /\ last'.op = "rollback"
          /\ last'.ns # None
          /\ Demotable(deps, last'.ns, last'.name) = {} )
        => ( /\ last'.result = "ok"
             /\ last'.http = 200
             /\ last'.promoted = None
             /\ last'.demoted = None
             /\ \A i \in 1..Len(last'.calls) : last'.calls[i].verb = "list"
             /\ deps' = deps
             /\ svcs' = svcs ) ]_vars

\* a rollback did nothing for an application whose only Deployment is active
C12_Witness ==
    /\ last.op = "rollback"
    /\ last.result = "ok"
    /\ last.promoted = None
    /\ WithRole(deps, last.ns, last.name, "active") # {}
    /\ Demotable(deps, last.ns, last.name) = {}

\* C13: a prepare leaves the set of Deployments with role=active as it was,
\* in every reachable state (also after a promote), and touches no Service.
C13_PrepareMovesNoTraffic ==
    [][ (last'.op = "prepare" /\ last'.ns # None)
        => ( /\ WithRole(deps', last'.ns, last'.name, "active")
                  = WithRole(deps, last'.ns, last'.name, "active")
             /\ svcs' = svcs
             /\ ServiceCalls(last'.calls) = <<>> ) ]_vars

\* C14: every Service that exists selects {app: X, role: active}, and a
\* prepare, promote or rollback request makes no call on a Service.
C14_SelectorFixed ==
    /\ \A ns \in Namespaces : \A n \in DOMAIN svcs[ns] :
           /\ svcs[ns][n].selApp = svcs[ns][n].app
           /\ svcs[ns][n].selRole = "active"
    /\ last.op \in RolloutOps => ServiceCalls(last.calls) = <<>>

\* a promote swapped the roles of two Deployments behind an existing Service
C14_Witness ==
    /\ last.op = "promote"
    /\ last.promoted # None
    /\ last.demoted # None
    /\ Exists(svcs, last.ns, last.name)
    /\ svcs[last.ns][last.name].selRole = "active"
    /\ deps[last.ns][last.promoted].role = "active"


\* the previous request and the one now handled are the same deploy
SameDeployAgain ==
    /\ last.op = "deploy"
    /\ last.result = "ok"
    /\ last'.op = "deploy"
    /\ last'.ctx = last.ctx
    /\ last'.name = last.name
    /\ last'.reqNs = last.reqNs
    /\ last'.replicas = last.replicas
    /\ last'.port = last.port

\* C16: a deploy repeated with the identical spec succeeds, creates nothing
\* and leaves every Deployment and every Service as the first left them.
C16_UpsertIdempotent ==
    [][ SameDeployAgain
        => ( /\ last'.result = "ok"
             /\ \A i \in 1..Len(last'.calls) : last'.calls[i].verb # "create"
             /\ deps' = deps
             /\ svcs' = svcs ) ]_vars

\* the same deploy was handled twice in a row, the second time by patching
C16_Witness ==
    /\ prev.op = "deploy"
    /\ prev.result = "ok"
    /\ last.op = "deploy"
    /\ last.result = "ok"
    /\ last.name = prev.name
    /\ last.replicas = prev.replicas
    /\ last.port = prev.port
    /\ \E i \in 1..Len(last.calls) :
          last.calls[i].verb = "patch" /\ last.calls[i].kind = "service"
    /\ Exists(deps, last.ns, last.name)

C20_ScaleChangesOnlyReplicas ==
    [][ (last'.op = "scale" /\ last'.ns # None)
        => LET ns == last'.ns
               n == last'.name
           IN  /\ svcs' = svcs
               /\ \A m \in Namespaces :
                     /\ DOMAIN deps'[m] = DOMAIN deps[m]
                     /\ \A k \in DOMAIN deps[m] :
                           IF m = ns /\ k = n
                           THEN deps'[m][k] = [deps[m][k] EXCEPT
                                                 !.replicas = last'.replicas]
                           ELSE deps'[m][k] = deps[m][k]
               /\ ( /\ last.op = "scale"
                    /\ last.name = n
                    /\ last.ns = ns
                    /\ last.replicas = last'.replicas )
                  => deps' = deps ]_vars

\* the preview Deployment was scaled twice to the same count, next to others
C20_Witness ==
    /\ prev.op = "scale"
    /\ prev.result = "ok"
    /\ last.op = "scale"
    /\ last.result = "ok"
    /\ last.name = prev.name
    /\ last.replicas = prev.replicas
    /\ Cardinality(DOMAIN deps[last.ns]) = 2
    /\ deps[last.ns][last.name].role = "preview"
    /\ deps[last.ns][last.name].replicas = last.replicas
    /\ Exists(svcs, last.ns, "web")


-----------------------------------------------------------------------------
(* Requests handled side by side.  Each server process runs one request at  *)
(* a time; a step is one call on the cluster API, and what a process has    *)
(* read stays in its locals while other processes write.                    *)

Free(w) == inflight[w].pc \in {"idle", "done"}

Finish(w, result) == [inflight[w] EXCEPT !.pc = "done", !.result = result]

\* deploy_app up to upsert_deployment's read_namespaced_deployment
DeployReadDeployment(w) ==
    /\ Free(w)
    /\ \E ctx \in Principals, spec \in AppSpecs :
          LET name == effective_app_label(spec)
              ns == Or(spec.namespace, get_namespace)
          IN  /\ spec.namespace = ctx.k8s_namespace
              /\ verify_namespace_access(ctx, spec.namespace) # Forbidden
              /\ inflight' = [inflight EXCEPT ![w] =
                     [Resting EXCEPT !.op = "deploy", !.pc = "dep_write",
                                     !.ctx = ctx, !.name = name, !.ns = ns,
                                     !.spec = spec,
                                     !.found = Exists(deps, ns, name)]]
    /\ UNCHANGED <<deps, svcs, last, prev, tenantVars>>

\* patch when the read found the Deployment, create when it answered 404;
\* the API server refuses to create a name that exists by now (409), and
\* the ApiException raised inside the except block leaves upsert_deployment
DeployWriteDeployment(w) ==
    /\ inflight[w].pc = "dep_write"
    /\ LET r == inflight[w]
       IN  IF ~r.found /\ Exists(deps, r.ns, r.name)
           THEN /\ inflight' = [inflight EXCEPT ![w] = Finish(w, "Conflict")]
                /\ UNCHANGED deps
           ELSE /\ deps' = upsert_deployment(deps, r.spec).deps
                /\ inflight' = [inflight EXCEPT ![w].pc = "svc_read"]
    /\ UNCHANGED <<svcs, last, prev, tenantVars>>

\* upsert_service up to read_namespaced_service
DeployReadService(w) ==
    /\ inflight[w].pc = "svc_read"
    /\ LET r == inflight[w]
           ns == Or(r.ctx.k8s_namespace, Or(r.spec.namespace, "default"))
           denied == upsert_service(svcs, r.spec, r.ctx).result
       IN  inflight' = [inflight EXCEPT ![w] =
               IF denied # "ok"
               THEN Finish(w, denied)
               ELSE [r EXCEPT !.pc = "svc_write",
                              !.svcFound = Exists(svcs, ns,
                                                  effective_service_name(r.spec))]]
    /\ UNCHANGED <<deps, svcs, last, prev, tenantVars>>

\* the type and ports a patch repeats are those read before; no deploy
\* changes them, so they are the ones the Service has at the write
DeployWriteService(w) ==
    /\ inflight[w].pc = "svc_write"
    /\ LET r == inflight[w]
           ns == Or(r.ctx.k8s_namespace, Or(r.spec.namespace, "default"))
       IN  IF ~r.svcFound /\ Exists(svcs, ns, effective_service_name(r.spec))
           THEN /\ inflight' = [inflight EXCEPT ![w] = Finish(w, "Conflict")]
                /\ UNCHANGED svcs
           ELSE /\ svcs' = upsert_service(svcs, r.spec, r.ctx).svcs
                /\ inflight' = [inflight EXCEPT ![w] = Finish(w, "ok")]
    /\ UNCHANGED <<deps, last, prev, tenantVars>>


\* deploys of the server processes against a cluster that starts empty
NextRaceDeploy ==
    \E w \in Workers :
        \/ DeployReadDeployment(w)
        \/ DeployWriteDeployment(w)
        \/ DeployReadService(w)
        \/ DeployWriteService(w)

SpecRaceDeploy == Init /\ [][NextRaceDeploy]_vars

\* two deploys of one application have ended, and each had read that the
\* Deployment did not exist: both read before either created
RacedDeploys(w1, w2) ==
    /\ w1 # w2
    /\ \A w \in {w1, w2} :
          /\ inflight[w].op = "deploy"
          /\ inflight[w].pc = "done"
          /\ ~inflight[w].found
    /\ inflight[w1].name = inflight[w2].name
    /\ inflight[w1].ns = inflight[w2].ns

\* C18: when two deploys of an application that does not exist yet race,
\* both succeed (the conflict answered to the losing create counts as
\* success), and afterwards the application has its Deployment and its
\* Service.
C18_RacingDeploysBothSucceed ==
    \A w1, w2 \in Workers :
        RacedDeploys(w1, w2)
        => /\ inflight[w1].result = "ok"
           /\ inflight[w2].result = "ok"
           /\ Exists(deps, inflight[w1].ns, inflight[w1].name)
           /\ Exists(svcs, inflight[w1].ns,
                     effective_service_name(inflight[w1].spec))


-----------------------------------------------------------------------------
(* promote and rollback, one label patch at a time *)

\* the locals of bg_promote / bg_rollback after the loop over the listed items
ListRoles(D, op, user, name) ==
    LET ns == Or(user.k8s_namespace, get_namespace)
        items == _find_deployments_by_app(D, ns, name)
    IN  [Resting EXCEPT
           !.op = op, !.ctx = user, !.name = name, !.ns = ns,
           !.preview = LastWithRole(D, ns, items, "preview"),
           !.active = LastWithRole(D, ns, items, "active"),
           !.exact = /\ Cardinality(WithRole(D, ns, name, "active")) = 1
                     /\ Cardinality(WithRole(D, ns, name, "preview")) = 1]

\* a promote without a preview raises NotFound before any patch
PromoteList(w) ==
    /\ Free(w)
    /\ \E user \in Principals, name \in Apps :
          LET r == ListRoles(deps, "promote", user, name)
          IN  inflight' = [inflight EXCEPT ![w] =
                  IF r.preview = None
                  THEN [r EXCEPT !.pc = "done", !.result = "NotFound"]
                  ELSE [r EXCEPT !.pc = "promote_preview"]]
    /\ UNCHANGED <<deps, svcs, last, prev, tenantVars>>

\* _patch_deploy_labels(preview, "active")
PromotePatchPreview(w) ==
    /\ inflight[w].pc = "promote_preview"
    /\ LET r == inflight[w]
       IN  /\ deps' = _patch_deploy_labels(deps, r.ns, r.preview, "active")
           /\ inflight' = [inflight EXCEPT ![w] =
                  IF r.active # None THEN [r EXCEPT !.pc = "promote_active"]
                  ELSE Finish(w, "ok")]
    /\ UNCHANGED <<svcs, last, prev, tenantVars>>

\* _patch_deploy_labels(active, "idle"), then the return statement that
\* raises AttributeError
PromotePatchActive(w) ==
    /\ inflight[w].pc = "promote_active"
    /\ LET r == inflight[w]
       IN  /\ deps' = _patch_deploy_labels(deps, r.ns, r.active, "idle")
           /\ inflight' = [inflight EXCEPT ![w] = Finish(w, "AttributeError")]
    /\ UNCHANGED <<svcs, last, prev, tenantVars>>

\* the cluster API fails a patch of promote: the ApiException ends the request
PromotePatchFails(w) ==
    /\ inflight[w].pc \in {"promote_preview", "promote_active"}
    /\ inflight' = [inflight EXCEPT ![w] = Finish(w, "ApiException")]
    /\ UNCHANGED <<deps, svcs, last, prev, tenantVars>>

\* a rollback that finds no preview does nothing
RollbackList(w) ==
    /\ Free(w)
    /\ \E user \in Principals, name \in Apps :
          LET r == ListRoles(deps, "rollback", user, name)
          IN  inflight' = [inflight EXCEPT ![w] =
                  IF r.active # None /\ r.preview # None
                  THEN [r EXCEPT !.pc = "rollback_active"]
                  ELSE IF r.preview # None
                  THEN [r EXCEPT !.pc = "rollback_preview"]
                  ELSE [r EXCEPT !.pc = "done", !.result = "ok"]]
    /\ UNCHANGED <<deps, svcs, last, prev, tenantVars>>

\* _patch_deploy_labels(active, "preview")
RollbackPatchActive(w) ==
    /\ inflight[w].pc = "rollback_active"
    /\ LET r == inflight[w]
       IN  /\ deps' = _patch_deploy_labels(deps, r.ns, r.active, "preview")
           /\ inflight' = [inflight EXCEPT ![w].pc = "rollback_preview"]
    /\ UNCHANGED <<svcs, last, prev, tenantVars>>

\* _patch_deploy_labels(preview, "active")
RollbackPatchPreview(w) ==
    /\ inflight[w].pc = "rollback_preview"
    /\ LET r == inflight[w]
       IN  /\ deps' = _patch_deploy_labels(deps, r.ns, r.preview, "active")
           /\ inflight' = [inflight EXCEPT ![w] = Finish(w, "ok")]
    /\ UNCHANGED <<svcs, last, prev, tenantVars>>

\* an application that was deployed and for which a preview was prepared
InitRollout ==
    /\ inflight = Quiet
    /\ init_db
    /\ last = NoRequest
    /\ prev = Summary(NoRequest)
    /\ \E ctx \in Principals, spec \in AppSpecs, pspec \in AppSpecs :
          /\ spec.namespace = ctx.k8s_namespace
          /\ pspec.namespace = ctx.k8s_namespace
          /\ pspec.port = spec.port
          /\ deps = bg_prepare(upsert_deployment(NoObjects, spec).deps, pspec).deps
          /\ svcs = upsert_service(NoObjects, spec, ctx).svcs


\* one process issues promotes and rollbacks; a patch of promote may fail
NextCutover ==
    \E w \in {"w1"} :
        \/ PromoteList(w)
        \/ PromotePatchPreview(w)
        \/ PromotePatchActive(w)
        \/ PromotePatchFails(w)
        \/ RollbackList(w)
        \/ RollbackPatchActive(w)
        \/ RollbackPatchPreview(w)

SpecCutover == InitRollout /\ [][NextCutover]_vars

\* the processes issue promotes and rollbacks side by side; no call fails
NextRaceBG ==
    \E w \in Workers :
        \/ PromoteList(w)
        \/ PromotePatchPreview(w)
        \/ PromotePatchActive(w)
        \/ RollbackList(w)
        \/ RollbackPatchActive(w)
        \/ RollbackPatchPreview(w)

SpecRaceBG == InitRollout /\ [][NextRaceBG]_vars

\* C15: while a promote that found exactly one active and one preview
\* Deployment runs, and after it ended (also when a patch failed), exactly
\* one Deployment of the application has role=active.
C15_CutoverAtomic ==
    \A w \in Workers :
        (inflight[w].op = "promote" /\ inflight[w].exact)
        => Cardinality(WithRole(deps, inflight[w].ns, inflight[w].name, "active")) = 1

\* C19: the application starts with one active Deployment; whenever every
\* promote and rollback issued so far has completed, however their list
\* and patch calls were interleaved, exactly one of its Deployments has
\* role=active (at most one, and not none).
C19_OneActiveWhenQuiet ==
    (\A w \in Workers : Free(w))
    => \A ns \in Namespaces, app \in Apps :
          DOMAIN deps[ns] # {}
          => Cardinality(WithRole(deps, ns, app, "active")) = 1


-----------------------------------------------------------------------------
(* The reconciler when the cluster API answers one of its calls with an     *)
(* error.  A 404 answered to a patch means the object was deleted after it  *)
(* was read.                                                                *)

ApiException(status) ==
    CASE status = 403 -> "ApiException(403)"
      [] status = 404 -> "ApiException(404)"
      [] status = 409 -> "ApiException(409)"
      [] OTHER -> "ApiException(500)"

Remove(objs, ns, name) ==
    [objs EXCEPT ![ns] = [n \in (DOMAIN @) \ {name} |-> @[n]]]

ReconcilerFaults ==
    { [verb |-> v, kind |-> k, status |-> c] :
        v \in {"read", "patch", "create"}, k \in {"deployment", "service"},
        c \in {404, 409, 500} }

\* the error is one the call can be answered with, and the call is made
Hits(f, found) ==
    \/ f.verb = "read" /\ f.status = 500
    \/ f.verb = "patch" /\ f.status \in {404, 500} /\ found
    \/ f.verb = "create" /\ f.status \in {409, 500} /\ ~found

\* try: read; patch / except ApiException: create on 404, else raise.
\* The except clause also catches what the patch raises.
ReadThenWrite(found, f) ==
    IF f.verb = "read"
    THEN [verbs |-> <<"read">>, status |-> f.status]
    ELSE IF found
    THEN IF f.verb = "patch"
         THEN IF f.status = 404
              THEN [verbs |-> <<"read", "patch", "create">>, status |-> 0]
              ELSE [verbs |-> <<"read", "patch">>, status |-> f.status]
         ELSE [verbs |-> <<"read", "patch">>, status |-> 0]
    ELSE IF f.verb = "create"
         THEN [verbs |-> <<"read", "create">>, status |-> f.status]
         ELSE [verbs |-> <<"read", "create">>, status |-> 0]

\* upsert_deployment when the call f names is answered with f.status
upsert_deployment_under(D, spec, f) ==
    LET ns == Or(spec.namespace, get_namespace)
        name == effective_app_label(spec)
        flow == ReadThenWrite(Exists(D, ns, name),
                              IF f.kind = "deployment" THEN f ELSE NoFault)
        gone == IF f.kind = "deployment" /\ f.verb = "patch" /\ f.status = 404
                THEN Remove(D, ns, name) ELSE D
    IN  [deps |-> IF flow.status = 0 THEN upsert_deployment(gone, spec).deps ELSE gone,
         calls |-> [i \in 1..Len(flow.verbs) |->
                       Call(flow.verbs[i], "deployment", ns, name)],
         result |-> IF flow.status = 0 THEN "ok" ELSE ApiException(flow.status)]

\* upsert_service when the call f names is answered with f.status
upsert_service_under(S, spec, ctx, f) ==
    LET ns == Or(ctx.k8s_namespace, Or(spec.namespace, "default"))
        svc_name == effective_service_name(spec)
        clean == upsert_service(S, spec, ctx)
        flow == ReadThenWrite(Exists(S, ns, svc_name),
                              IF f.kind = "service" THEN f ELSE NoFault)
        gone == IF f.kind = "service" /\ f.verb = "patch" /\ f.status = 404
                THEN Remove(S, ns, svc_name) ELSE S
    IN  IF clean.result # "ok"
        THEN clean
        ELSE [svcs |-> IF flow.status = 0
                       THEN upsert_service(gone, spec, ctx).svcs ELSE gone,
              calls |-> [i \in 1..Len(flow.verbs) |->
                            Call(flow.verbs[i], "service", ns, svc_name)]
                        \o (IF flow.status = 0
                            THEN create_ingress_for_app(effective_app_label(spec), ns)
                            ELSE <<>>),
              result |-> IF flow.status = 0 THEN "ok" ELSE ApiException(flow.status)]

\* deploy_app: what upsert_deployment raises skips upsert_service
deploy_app_under(ctx, spec, f) ==
    LET user_role == Lower(ctx.role)
        token_ns == ctx.k8s_namespace
        unassigned == user_role # "platform_admin" /\ token_ns = None
        final_ns == IF user_role = "platform_admin"
                    THEN Or(spec.namespace, Or(token_ns, "default"))
                    ELSE token_ns
        spec2 == [spec EXCEPT !.namespace = final_ns]
        guard == verify_namespace_access(ctx, spec2.namespace)
        d == upsert_deployment_under(deps, spec2, f)
        s == upsert_service_under(svcs, spec2, ctx, f)
    IN  IF unassigned \/ guard = Forbidden
        THEN /\ UNCHANGED <<deps, svcs>>
             /\ last' = Request("deploy", ctx, spec.name, spec.namespace,
                                spec.replicas, spec.port, None,
                                Outcome(IF unassigned THEN "BadRequest" ELSE Forbidden,
                                        <<>>))
        ELSE /\ deps' = d.deps
             /\ svcs' = IF d.result = "ok" THEN s.svcs ELSE svcs
             /\ last' = Request("deploy", ctx, spec.name, spec.namespace,
                                spec.replicas, spec.port, final_ns,
                                IF d.result = "ok"
                                THEN Outcome(s.result, d.calls \o s.calls)
                                ELSE Outcome(d.result, d.calls))

DeployAppUnder ==
    /\ \E ctx \in Principals, spec \in AppSpecs, f \in ReconcilerFaults \cup {NoFault} :
          /\ spec.namespace = ctx.k8s_namespace
          /\ \/ f = NoFault
             \/ f.kind = "deployment"
                /\ Hits(f, Exists(deps, spec.namespace, effective_app_label(spec)))
             \/ f.kind = "service"
                /\ Hits(f, Exists(svcs, spec.namespace, effective_service_name(spec)))
          /\ deploy_app_under(ctx, spec, f)
          /\ fault' = f
    /\ prev' = Summary(last)
    /\ UNCHANGED <<inflight, nss, tenants, nextId, runs, tasks, audit>>

NextFaults ==
    \/ DeployAppUnder
    \/ ScaleApp

SpecFaults == Init /\ [][NextFaults]_vars

\* the calls a request made on one kind of object
CallsOn(calls, kind) == SelectSeq(calls, LAMBDA c : c.kind = kind)

\* C21: in a deploy, a not-found answered to the first read leads to a
\* create and to no error; every other error the cluster API answers to a
\* read, patch or create is the result of the request as it is, and the
\* failed call is the last one made: no retry, no further patch or create.
C21_ErrorsPropagate ==
    last.op = "deploy"
    => /\ fault = NoFault => last.result = "ok"
       /\ fault # NoFault
          => /\ last.result = ApiException(fault.status)
             /\ last.calls # <<>>
             /\ last.calls[Len(last.calls)].verb = fault.verb
             /\ last.calls[Len(last.calls)].kind = fault.kind
       /\ \A k \in {"deployment", "service"} :
             Len(CallsOn(last.calls, k)) <= 2


\* C22: every prepare leaves the Deployment <name>-preview with role=preview
\* and the replica count of its spec, leaves every other Deployment as it
\* was (no second preview Deployment is created), and a prepare repeated
\* with the same spec changes nothing.
C22_PrepareKeepsOnePreview ==
    [][ (last'.op = "prepare" /\ last'.ns # None)
        => LET ns == last'.ns
               p == PreviewName(last'.name)
           IN  /\ last'.result = "ok"
               /\ Exists(deps', ns, p)
               /\ deps'[ns][p] = [app |-> last'.name, role |-> "preview",
                                  trole |-> "preview", replicas |-> last'.replicas]
               /\ \A m \in Namespaces :
                     /\ DOMAIN deps'[m] = DOMAIN deps[m] \cup (IF m = ns THEN {p} ELSE {})
                     /\ \A n \in DOMAIN deps[m] :
                           (m # ns \/ n # p) => deps'[m][n] = deps[m][n]
               /\ ( /\ last.op = "prepare"
                    /\ last.name = last'.name
                    /\ last.ns = ns
                    /\ last.replicas = last'.replicas
                    /\ last.port = last'.port )
                  => deps' = deps ]_vars

\* a prepare overwrote the preview of a prepare with another replica count
C22_Witness ==
    /\ prev.op = "prepare"
    /\ prev.result = "ok"
    /\ last.op = "prepare"
    /\ last.name = prev.name
    /\ last.replicas # prev.replicas
    /\ \E i \in 1..Len(last.calls) : last.calls[i].verb = "patch"
    /\ deps[last.ns][PreviewName(last.name)].replicas = last.replicas
    /\ Cardinality(WithRole(deps, last.ns, last.name, "preview")) = 1

\* ---------------------------------------------------------------------
\* Tenant onboarding: registration, approval, rejection and the
\* provisioning task (onboarding.py, admin.py, create_tenant_namespace)
\* ---------------------------------------------------------------------

MaxTenants == 2

MaxRuns == 2

Companies == {"Acme"}

\* str.lower() on the company names in use
lower(s) == CASE s = "Acme" -> "acme" [] s = "Demo" -> "demo" [] OTHER -> s

RawNamespaces == {"acme", " Acme", "--"}

Invalid == "invalid"

\* strip, lower-case, replace other characters by "-", trim the dashes,
\* then require a DNS label; on the namespaces in use
sanitize_namespace(raw) ==
    CASE raw = "acme" -> "acme"
      [] raw = " Acme" -> "acme"
      [] raw = "demo" -> "demo"
      [] raw = "Default" -> "default"
      [] OTHER -> Invalid

Admins ==
    { [role |-> "platform_admin", k8s_namespace |-> DefaultNs],
      [role |-> "admin", k8s_namespace |-> TenantNs] }

\* a namespaced object of the tenant bundle
Item(kind, name) == [kind |-> kind, name |-> name]

\* the API clients get_api_clients() returns, by key
get_api_clients == {"apps", "core", "custom"}

\* the cluster API errors injected into one call of a tenant request
TenantFaults ==
    { [verb |-> "read", kind |-> "namespace", status |-> 500],
      [verb |-> "create", kind |-> "namespace", status |-> 409],
      [verb |-> "create", kind |-> "limitrange", status |-> 500],
      [verb |-> "delete", kind |-> "namespace", status |-> 500] }

\* st = [nss, calls, result]: the cluster, the calls made and the exception
\* raised so far.  One create_namespaced_* call that tolerates 409 only.
create_unless_exists(st, ns, kind, name, f) ==
    IF st.result # "ok" THEN st
    ELSE LET made == [st EXCEPT !.calls = Append(@, Call("create", kind, ns, name))]
         IN  IF f.verb = "create" /\ f.kind = kind
             THEN [made EXCEPT !.result = ApiException(f.status)]
             ELSE IF ns \notin DOMAIN st.nss
             THEN [made EXCEPT !.result = ApiException(404)]
             ELSE IF Item(kind, name) \in st.nss[ns]
             THEN made
             ELSE [made EXCEPT !.nss = [@ EXCEPT ![ns] = @ \cup {Item(kind, name)}]]

apply_quota_and_limits(st, ns, f) ==
    create_unless_exists(
        create_unless_exists(st, ns, "resourcequota", "tenant-quota", f),
        ns, "limitrange", "tenant-limits", f)

\* read_namespace, then create_namespace on 404; any other error of the
\* read is dropped, an error of the create is raised
ensure_namespace(N, ns, f) ==
    LET rd == <<Call("read", "namespace", None, ns)>>
        cr == Append(rd, Call("create", "namespace", None, ns))
    IN  IF f.verb = "read" /\ f.kind = "namespace"
        THEN [nss |-> N, calls |-> rd, result |-> "ok"]
        ELSE IF ns \in DOMAIN N
        THEN [nss |-> N, calls |-> rd, result |-> "ok"]
        ELSE IF f.verb = "create" /\ f.kind = "namespace"
        THEN [nss |-> N, calls |-> cr, result |-> ApiException(f.status)]
        ELSE [nss |-> (ns :> {}) @@ N, calls |-> cr, result |-> "ok"]

\* variant: the network policy is created before the quota and limit range
approve_bundle_policy_first(N, ns, f) ==
    LET s0 == ensure_namespace(N, ns, f)
        s1 == create_unless_exists(s0, ns, "networkpolicy", "default-deny", f)
        s2 == apply_quota_and_limits(s1, ns, f)
        s3 == create_unless_exists(s2, ns, "serviceaccount", "tenant-admin", f)
        s4 == create_unless_exists(s3, ns, "role", "tenant-admin-role", f)
    IN  create_unless_exists(s4, ns, "rolebinding", "tenant-admin-binding", f)

\* the cluster calls of onboarding.approve, in the order of the code
approve_bundle(N, ns, f) ==
    LET s1 == apply_quota_and_limits(ensure_namespace(N, ns, f), ns, f)
        s2 == create_unless_exists(s1, ns, "networkpolicy", "default-deny", f)
        s3 == create_unless_exists(s2, ns, "serviceaccount", "tenant-admin", f)
        s4 == create_unless_exists(s3, ns, "role", "tenant-admin-role", f)
    IN  create_unless_exists(s4, ns, "rolebinding", "tenant-admin-binding", f)

\* one read-then-create-on-404 step of create_tenant_namespace
read_then_create(st, ns, kind, name) ==
    IF st.result # "ok" THEN st
    ELSE LET rd == [st EXCEPT !.calls = Append(@, Call("read", kind, ns, name))]
         IN  IF ns \in DOMAIN st.nss /\ Item(kind, name) \in st.nss[ns]
             THEN rd
             ELSE LET cr == [rd EXCEPT !.calls = Append(@, Call("create", kind, ns, name))]
                  IN  IF ns \notin DOMAIN st.nss
                      THEN [cr EXCEPT !.result = ApiException(404)]
                      ELSE [cr EXCEPT !.nss = [@ EXCEPT ![ns] = @ \cup {Item(kind, name)}]]

\* apis["rbac"] is looked up before any cluster call; get_api_clients has no
\* such key, so the lookup raises KeyError
create_tenant_namespace(N, ns) ==
    IF "rbac" \notin get_api_clients
    THEN [nss |-> N, calls |-> <<>>, result |-> "KeyError('rbac')"]
    ELSE LET s0 == ensure_namespace(N, ns, NoFault)
             s1 == read_then_create(s0, ns, "serviceaccount", "tenant-app-sa")
             s2 == read_then_create(s1, ns, "role", "tenant-app-role")
         IN  read_then_create(s2, ns, "rolebinding", "tenant-app-binding")

\* the status code FastAPI answers for an outcome
HttpOf(result) ==
    CASE result = "ok" -> 200
      [] result = Forbidden -> 403
      [] result = "NotFound" -> 404
      [] result = "Conflict" -> 409
      [] result = "Unprocessable" -> 422
      [] OTHER -> 500

Anonymous == [role |-> None, k8s_namespace |-> None]

TenantRequest(op, ctx, tid, name, ns, r) ==
    [op |-> op, ctx |-> ctx, name |-> name, reqNs |-> None,
     replicas |-> 0, port |-> 0, ns |-> ns,
     result |-> r.result, http |-> HttpOf(r.result),
     calls |-> r.calls, promoted |-> None, demoted |-> None,
     tenant_id |-> tid]

AuditLog(tid, action, result) == [tenant_id |-> tid, action |-> action, result |-> result]

ProvisioningRun(tid) ==
    [tenant_id |-> tid, status |-> "queued", last_error |-> None, retries |-> 0]

\* a tenant request that changes neither the store nor the cluster
Refused(T, N, R, result) ==
    [tenants |-> T, nss |-> N, runs |-> R, queued |-> <<>>, audit |-> <<>>,
     calls |-> <<>>, result |-> result, ns |-> None]

\* variant: rejected records are left in place and do not block a registration
register_keeping_rejected(T, R, id, company, raw) ==
    LET clean_ns == sanitize_namespace(raw)
        Matches(t) == t.name = company \/ t.k8s_namespace = clean_ns
        existing == {i \in DOMAIN T : Matches(T[i]) /\ T[i].status # "rejected"}
        t == [name |-> company, k8s_namespace |-> clean_ns, status |-> "pending"]
    IN  IF clean_ns = Invalid
        THEN [Refused(T, <<>>, R, "Unprocessable") EXCEPT !.ns = raw] @@ [nextId |-> id, tenant_id |-> 0]
        ELSE IF existing # {}
        THEN [Refused(T, <<>>, R, "Conflict") EXCEPT !.ns = clean_ns]
             @@ [nextId |-> id, tenant_id |-> 0]
        ELSE [tenants |-> (id :> t) @@ T, nss |-> <<>>, runs |-> R, queued |-> <<>>,
              audit |-> <<AuditLog(id, "register", "ok")>>,
              calls |-> <<>>, result |-> "ok", ns |-> clean_ns,
              nextId |-> id + 1, tenant_id |-> id]

register(T, R, id, company, raw) ==
    LET clean_ns == sanitize_namespace(raw)
        Matches(t) == t.name = company \/ t.k8s_namespace = clean_ns
        rejected_tenants == {i \in DOMAIN T : Matches(T[i]) /\ T[i].status = "rejected"}
        T1 == [i \in DOMAIN T \ rejected_tenants |-> T[i]]
        R1 == SelectSeq(R, LAMBDA row : row.tenant_id \notin rejected_tenants)
        existing == {i \in DOMAIN T1 : Matches(T1[i])}
        t == [name |-> company, k8s_namespace |-> clean_ns, status |-> "pending"]
    IN  IF clean_ns = Invalid
        THEN [Refused(T, <<>>, R, "Unprocessable") EXCEPT !.ns = raw] @@ [nextId |-> id, tenant_id |-> 0]
        ELSE IF Cardinality(existing) > 1
        THEN [Refused(T1, <<>>, R1, "MultipleResultsFound") EXCEPT !.ns = clean_ns]
             @@ [nextId |-> id, tenant_id |-> 0]
        ELSE IF existing # {}
        THEN [Refused(T1, <<>>, R1, "Conflict") EXCEPT !.ns = clean_ns]
             @@ [nextId |-> id, tenant_id |-> 0]
        ELSE [tenants |-> (id :> t) @@ T1, nss |-> <<>>, runs |-> R1, queued |-> <<>>,
              audit |-> <<AuditLog(id, "register", "ok")>>,
              calls |-> <<>>, result |-> "ok", ns |-> clean_ns,
              nextId |-> id + 1, tenant_id |-> id]

\* variant: the approval activates the tenant without queueing a run or a task
approve_without_task(T, N, R, ctx, tenant_id, f) ==
    IF ctx.role # "platform_admin" THEN Refused(T, N, R, Forbidden)
    ELSE IF tenant_id \notin DOMAIN T THEN Refused(T, N, R, "NotFound")
    ELSE LET ns_name == "tenant-" \o lower(T[tenant_id].name)
             b == approve_bundle(N, ns_name, f)
         IN  [tenants |-> IF b.result # "ok" THEN T
                          ELSE [T EXCEPT ![tenant_id] =
                                   [@ EXCEPT !.k8s_namespace = ns_name,
                                             !.status = "active"]],
              nss |-> b.nss, runs |-> R, queued |-> <<>>,
              audit |-> IF b.result # "ok" THEN <<>>
                        ELSE <<AuditLog(tenant_id, "approve", "ok")>>,
              calls |-> b.calls, result |-> b.result, ns |-> ns_name]

\* variant: the store accepts a namespace another record holds
namespace_taken_unchecked(T, tenant_id, ns_name) == FALSE

\* tenants.k8s_namespace is unique: the commit of a namespace that another
\* record holds raises IntegrityError
namespace_taken(T, tenant_id, ns_name) ==
    \E j \in DOMAIN T \ {tenant_id} : T[j].k8s_namespace = ns_name

\* variant: the record is committed as active before the cluster calls
approve_commit_first(T, N, R, ctx, tenant_id, f) ==
    IF ctx.role # "platform_admin" THEN Refused(T, N, R, Forbidden)
    ELSE IF tenant_id \notin DOMAIN T THEN Refused(T, N, R, "NotFound")
    ELSE LET ns_name == "tenant-" \o lower(T[tenant_id].name)
             b == approve_bundle(N, ns_name, f)
         IN  [tenants |-> [T EXCEPT ![tenant_id] =
                              [@ EXCEPT !.k8s_namespace = ns_name,
                                        !.status = "active"]],
              nss |-> b.nss,
              runs |-> IF b.result # "ok" THEN R
                       ELSE Append(R, ProvisioningRun(tenant_id)),
              queued |-> IF b.result # "ok" THEN <<>> ELSE <<tenant_id>>,
              audit |-> IF b.result # "ok" THEN <<>>
                        ELSE <<AuditLog(tenant_id, "approve", "ok")>>,
              calls |-> b.calls, result |-> b.result, ns |-> ns_name]

\* onboarding.approve
approve(T, N, R, ctx, tenant_id, f) ==
    IF ctx.role # "platform_admin" THEN Refused(T, N, R, Forbidden)
    ELSE IF tenant_id \notin DOMAIN T THEN Refused(T, N, R, "NotFound")
    ELSE LET ns_name == "tenant-" \o lower(T[tenant_id].name)
             b == approve_bundle(N, ns_name, f)
             taken == namespace_taken(T, tenant_id, ns_name)
         IN  IF b.result # "ok" \/ taken
             THEN [tenants |-> T, nss |-> b.nss, runs |-> R, queued |-> <<>>,
                   audit |-> <<>>, calls |-> b.calls,
                   result |-> IF b.result # "ok" THEN b.result ELSE "IntegrityError",
                   ns |-> ns_name]
             ELSE [tenants |-> [T EXCEPT ![tenant_id] =
                                   [@ EXCEPT !.k8s_namespace = ns_name,
                                             !.status = "active"]],
                   nss |-> b.nss,
                   runs |-> Append(R, ProvisioningRun(tenant_id)),
                   queued |-> <<tenant_id>>,
                   audit |-> <<AuditLog(tenant_id, "approve", "ok")>>,
                   calls |-> b.calls, result |-> "ok", ns |-> ns_name]

ShortIds == {"x1y2z3"}

\* admin.approve_tenant
approve_tenant(T, N, R, ctx, tenant_id, sid) ==
    IF ctx.role # "platform_admin" THEN Refused(T, N, R, Forbidden)
    ELSE IF tenant_id \notin DOMAIN T THEN Refused(T, N, R, "NotFound")
    ELSE IF T[tenant_id].status = "active"
    THEN [Refused(T, N, R, "ok") EXCEPT !.ns = T[tenant_id].k8s_namespace]
    ELSE IF T[tenant_id].status = "rejected" THEN Refused(T, N, R, "Conflict")
    ELSE LET ns == "tenant-" \o lower(T[tenant_id].name) \o "-" \o sid
             summary == create_tenant_namespace(N, ns)
         IN  [tenants |-> IF summary.result = "ok"
                          THEN [T EXCEPT ![tenant_id] =
                                   [@ EXCEPT !.k8s_namespace = ns, !.status = "active"]]
                          ELSE T,
              nss |-> summary.nss, runs |-> R, queued |-> <<>>, audit |-> <<>>,
              calls |-> summary.calls, result |-> summary.result, ns |-> ns]

\* the namespace and everything in it is gone
delete_namespace(N, ns) == [m \in DOMAIN N \ {ns} |-> N[m]]

\* variant: a delete answered 404 is raised like any other error
reject_strict(T, N, R, ctx, tenant_id, f) ==
    IF ctx.role # "platform_admin" THEN Refused(T, N, R, Forbidden)
    ELSE IF tenant_id \notin DOMAIN T THEN Refused(T, N, R, "NotFound")
    ELSE LET ns == T[tenant_id].k8s_namespace
         IN  [tenants |-> [T EXCEPT ![tenant_id] = [@ EXCEPT !.status = "rejected"]],
              nss |-> IF f.verb = "delete" THEN N ELSE delete_namespace(N, ns),
              runs |-> R, queued |-> <<>>,
              audit |-> <<AuditLog(tenant_id, "reject", "rejected")>>,
              calls |-> <<Call("delete", "namespace", None, ns)>>,
              result |-> IF f.verb = "delete" THEN ApiException(f.status)
                         ELSE IF ns \notin DOMAIN N THEN ApiException(404)
                         ELSE "ok",
              ns |-> ns]

\* onboarding.reject
reject(T, N, R, ctx, tenant_id, f) ==
    IF ctx.role # "platform_admin" THEN Refused(T, N, R, Forbidden)
    ELSE IF tenant_id \notin DOMAIN T THEN Refused(T, N, R, "NotFound")
    ELSE LET ns == T[tenant_id].k8s_namespace
             done == [tenants |-> [T EXCEPT ![tenant_id] = [@ EXCEPT !.status = "rejected"]],
                      nss |-> N, runs |-> R, queued |-> <<>>,
                      audit |-> <<AuditLog(tenant_id, "reject", "rejected")>>,
                      calls |-> <<Call("delete", "namespace", None, ns)>>,
                      result |-> "ok", ns |-> ns]
         IN  IF f.verb = "delete" /\ f.kind = "namespace"
             THEN [done EXCEPT !.result = ApiException(f.status)]
             ELSE IF ns \notin DOMAIN N
             THEN done
             ELSE [done EXCEPT !.nss = delete_namespace(N, ns)]

\* admin.reject_tenant
reject_tenant(T, N, R, ctx, tenant_id) ==
    IF ctx.role # "platform_admin" THEN Refused(T, N, R, Forbidden)
    ELSE IF tenant_id \notin DOMAIN T THEN Refused(T, N, R, "NotFound")
    ELSE IF T[tenant_id].status = "active" THEN Refused(T, N, R, "Conflict")
    ELSE [Refused([T EXCEPT ![tenant_id] = [@ EXCEPT !.status = "rejected"]], N, R, "ok")
            EXCEPT !.ns = T[tenant_id].k8s_namespace]

\* the rows select(ProvisioningRun).where(tenant_id == ...) returns
RunsOf(R, tenant_id) == {i \in 1..Len(R) : R[i].tenant_id = tenant_id}

\* the background task of an approval
_provision_tenant(T, N, R, tenant_id) ==
    IF tenant_id \notin DOMAIN T
    THEN [nss |-> N, runs |-> R, audit |-> <<>>, calls |-> <<>>, result |-> "ok", ns |-> None]
    ELSE LET ns == T[tenant_id].k8s_namespace
             c == create_tenant_namespace(N, ns)
             rows == RunsOf(R, tenant_id)
             outcome == IF c.result = "ok" THEN "done" ELSE "failed"
             Update(pr) == IF c.result = "ok"
                           THEN [pr EXCEPT !.status = "done", !.last_error = None]
                           ELSE [pr EXCEPT !.status = "failed", !.last_error = c.result,
                                           !.retries = @ + 1]
         IN  IF Cardinality(rows) > 1
             THEN [nss |-> c.nss, runs |-> R, audit |-> <<>>, calls |-> c.calls,
                   result |-> "MultipleResultsFound", ns |-> ns]
             ELSE [nss |-> c.nss,
                   runs |-> [i \in 1..Len(R) |-> IF i \in rows THEN Update(R[i]) ELSE R[i]],
                   audit |-> <<AuditLog(tenant_id, "provision", outcome)>>,
                   calls |-> c.calls, result |-> c.result, ns |-> ns]

\* the injected error is the answer to a call the request made
Answered(f, calls) ==
    \/ f = NoFault
    \/ \E i \in 1..Len(calls) : calls[i].verb = f.verb /\ calls[i].kind = f.kind

\* the tenants the administrator's requests name: the registered ones
TenantIds == 2..MaxTenants

Register ==
    /\ nextId <= MaxTenants
    /\ \E company \in Companies, raw \in RawNamespaces :
          LET r == register(tenants, runs, nextId, company, raw)
          IN  /\ tenants' = r.tenants
              /\ runs' = r.runs
              /\ nextId' = r.nextId
              /\ audit' = r.audit
              /\ last' = TenantRequest("register", Anonymous, r.tenant_id, company, r.ns, r)
    /\ fault' = NoFault
    /\ prev' = Summary(last)
    /\ UNCHANGED <<deps, svcs, inflight, nss, tasks>>

Approve ==
    /\ Len(runs) < MaxRuns
    /\ \E ctx \in Admins, tenant_id \in TenantIds, f \in TenantFaults \cup {NoFault} :
          LET r == approve(tenants, nss, runs, ctx, tenant_id, f)
          IN  /\ Answered(f, r.calls)
              /\ tenants' = r.tenants
              /\ nss' = r.nss
              /\ runs' = r.runs
              /\ tasks' = tasks \o r.queued
              /\ audit' = r.audit
              /\ fault' = f
              /\ last' = TenantRequest("approve", ctx, tenant_id,
                                       IF tenant_id \in DOMAIN tenants
                                       THEN tenants[tenant_id].name ELSE None,
                                       r.ns, r)
    /\ prev' = Summary(last)
    /\ UNCHANGED <<deps, svcs, inflight, nextId>>

ApproveTenant ==
    /\ \E ctx \in Admins, tenant_id \in TenantIds, sid \in ShortIds :
          LET r == approve_tenant(tenants, nss, runs, ctx, tenant_id, sid)
          IN  /\ tenants' = r.tenants
              /\ nss' = r.nss
              /\ audit' = r.audit
              /\ last' = TenantRequest("approve_tenant", ctx, tenant_id,
                                       IF tenant_id \in DOMAIN tenants
                                       THEN tenants[tenant_id].name ELSE None,
                                       r.ns, r)
    /\ fault' = NoFault
    /\ prev' = Summary(last)
    /\ UNCHANGED <<deps, svcs, inflight, nextId, runs, tasks>>

Reject ==
    /\ \E ctx \in Admins, tenant_id \in TenantIds, f \in TenantFaults \cup {NoFault} :
          LET r == reject(tenants, nss, runs, ctx, tenant_id, f)
          IN  /\ Answered(f, r.calls)
              /\ tenants' = r.tenants
              /\ nss' = r.nss
              /\ audit' = r.audit
              /\ fault' = f
              /\ last' = TenantRequest("reject", ctx, tenant_id,
                                       IF tenant_id \in DOMAIN tenants
                                       THEN tenants[tenant_id].name ELSE None,
                                       r.ns, r)
    /\ prev' = Summary(last)
    /\ UNCHANGED <<deps, svcs, inflight, nextId, runs, tasks>>

RejectTenant ==
    /\ \E ctx \in Admins, tenant_id \in TenantIds :
          LET r == reject_tenant(tenants, nss, runs, ctx, tenant_id)
          IN  /\ tenants' = r.tenants
              /\ audit' = r.audit
              /\ last' = TenantRequest("reject_tenant", ctx, tenant_id,
                                       IF tenant_id \in DOMAIN tenants
                                       THEN tenants[tenant_id].name ELSE None,
                                       r.ns, r)
    /\ fault' = NoFault
    /\ prev' = Summary(last)
    /\ UNCHANGED <<deps, svcs, inflight, nss, nextId, runs, tasks>>

\* one queued background task runs, after the response of its approval
ProvisionTenant ==
    /\ \E i \in 1..Len(tasks) :
          LET tenant_id == tasks[i]
              r == _provision_tenant(tenants, nss, runs, tenant_id)
          IN  /\ tasks' = SubSeq(tasks, 1, i - 1) \o SubSeq(tasks, i + 1, Len(tasks))
              /\ nss' = r.nss
              /\ runs' = r.runs
              /\ audit' = r.audit
              /\ last' = TenantRequest("provision", Anonymous, tenant_id,
                                       IF tenant_id \in DOMAIN tenants
                                       THEN tenants[tenant_id].name ELSE None,
                                       r.ns, r)
    /\ fault' = NoFault
    /\ prev' = Summary(last)
    /\ UNCHANGED <<deps, svcs, inflight, tenants, nextId>>

InitTenant ==
    /\ deps = NoObjects
    /\ svcs = NoObjects
    /\ last = NoRequest @@ [tenant_id |-> 0]
    /\ prev = Summary(NoRequest)
    /\ inflight = Quiet
    /\ init_db

NextTenant ==
    \/ Register
    \/ Approve
    \/ ApproveTenant
    \/ Reject
    \/ RejectTenant
    \/ ProvisionTenant

SpecTenant == InitTenant /\ [][NextTenant]_vars

\* C23: when the bundle of a tenant is provisioned twice in a row with
\* nothing changed in between, the second provisioning issues no create call.
C23_SecondProvisionCreatesNothing ==
    ( /\ last.op = "approve"
      /\ last.result = "ok"
      /\ prev.op = "approve"
      /\ prev.result = "ok"
      /\ prev.name = last.name )
    => \A i \in 1..Len(last.calls) : last.calls[i].verb # "create"

\* the namespaced objects onboarding.approve creates, in the order of the code
ApproveOrder ==
    << Item("resourcequota", "tenant-quota"),
       Item("limitrange", "tenant-limits"),
       Item("networkpolicy", "default-deny"),
       Item("serviceaccount", "tenant-admin"),
       Item("role", "tenant-admin-role"),
       Item("rolebinding", "tenant-admin-binding") >>

\* the cluster calls of an approval of namespace ns that runs to its end
ApproveCalls(ns, creates_namespace) ==
    <<Call("read", "namespace", None, ns)>>
    \o (IF creates_namespace THEN <<Call("create", "namespace", None, ns)>> ELSE <<>>)
    \o [i \in 1..Len(ApproveOrder) |->
          Call("create", ApproveOrder[i].kind, ns, ApproveOrder[i].name)]

IsPrefix(s, t) == Len(s) <= Len(t) /\ \A i \in 1..Len(s) : s[i] = t[i]

\* C24: an approval issues its calls in the order namespace, quota, limit
\* range, network policy, service identity, role, role binding; objects that
\* already exist are tolerated, so an approval no call of which is answered
\* with an injected error ends ok with the whole bundle in place; and in
\* every namespace an item exists only if all earlier items exist.
C24_BundleInOrder ==
    /\ \A ns \in DOMAIN nss :
          \E k \in 0..Len(ApproveOrder) : nss[ns] = {ApproveOrder[i] : i \in 1..k}
    /\ (last.op = "approve" /\ last.ns # None)
       => /\ \E c \in BOOLEAN : IsPrefix(last.calls, ApproveCalls(last.ns, c))
          /\ fault = NoFault
             => /\ last.result = "ok"
                /\ last.ns \in DOMAIN nss
                /\ nss[last.ns] = {ApproveOrder[i] : i \in 1..Len(ApproveOrder)}

\* an approval completed the bundle an earlier, failed approval had begun
C24_Witness ==
    /\ last.op = "approve"
    /\ last.result = "ok"
    /\ prev.op = "approve"
    /\ prev.result = ApiException(500)
    /\ last.calls = ApproveCalls(last.ns, FALSE)
    /\ nss[last.ns] = {ApproveOrder[i] : i \in 1..Len(ApproveOrder)}

\* C25: once every background task of the approvals so far has run, no
\* ProvisioningRun row is left queued: each has reached done or failed.
C25_NoRunStaysQueued ==
    tasks = <<>>
    => \A i \in 1..Len(runs) : runs[i].status \in {"done", "failed"}

\* the exception is the answer of the cluster API to a call
BackendError(result) == \E status \in {403, 404, 409, 500} : result = ApiException(status)

\* C26: a provisioning task no backend call of which failed leaves the
\* tenant's run done with lastError cleared and retries unchanged; one whose
\* provisioning failed leaves it failed with lastError set and retries one
\* higher; either way it writes one audit row with the same result.
C26_RunRecordsOutcome ==
    [][ (last'.op = "provision" /\ last'.ns # None)
        => LET tid == last'.tenant_id
               outcome == IF BackendError(last'.result) THEN "failed" ELSE "done"
           IN  /\ audit' = <<AuditLog(tid, "provision", outcome)>>
               /\ Len(runs') = Len(runs)
               /\ \A i \in RunsOf(runs, tid) :
                     /\ runs'[i].status = outcome
                     /\ outcome = "done"
                        => /\ runs'[i].last_error = None
                           /\ runs'[i].retries = runs[i].retries
                     /\ outcome = "failed"
                        => /\ runs'[i].last_error # None
                           /\ runs'[i].retries = runs[i].retries + 1 ]_vars

\* C27: an approval by the platform administrator of an existing tenant
\* that is not rejected answers 200, whatever happens to the provisioning
\* steps.
C27_ApprovalNeverFails ==
    ( /\ last.op \in {"approve", "approve_tenant"}
      /\ last.result \notin {Forbidden, "NotFound", "Conflict"} )
    => last.http = 200

\* C28: a tenant record is created by a registration, with status pending;
\* a status becomes active only in an approval, which also queues the
\* provisioning task and its run (or, in admin.approve_tenant, has
\* provisioned the namespace in the request); a status becomes rejected only
\* in a reject.
C28_StatusTransitions ==
    [][ \A id \in DOMAIN tenants' :
          /\ id \notin DOMAIN tenants
             => /\ last'.op = "register"
                /\ tenants'[id].status = "pending"
          /\ (id \in DOMAIN tenants /\ tenants'[id].status # tenants[id].status)
             => /\ tenants'[id].status \in {"active", "rejected"}
                /\ tenants'[id].status = "active"
                   => /\ last'.tenant_id = id
                      /\ \/ /\ last'.op = "approve"
                            /\ tasks' = Append(tasks, id)
                            /\ runs' = Append(runs, ProvisioningRun(id))
                         \/ /\ last'.op = "approve_tenant"
                            /\ last'.result = "ok"
                /\ tenants'[id].status = "rejected"
                   => /\ last'.tenant_id = id
                      /\ last'.op \in {"reject", "reject_tenant"} ]_vars

\* a tenant went from pending to active in an approval and from there to
\* rejected in a reject
C28_Witness ==
    /\ last.op = "reject"
    /\ prev.op = "approve"
    /\ prev.result = "ok"
    /\ last.tenant_id \in DOMAIN tenants
    /\ tenants[last.tenant_id].status = "rejected"
    /\ tasks # <<>>

\* C29: a step that moves a tenant to rejected issues the deletion of that
\* tenant's namespace, and the namespace is gone after it.
C29_RejectDeletesNamespace ==
    [][ \A id \in DOMAIN tenants \cap DOMAIN tenants' :
          (tenants[id].status # "rejected" /\ tenants'[id].status = "rejected")
          => /\ \E i \in 1..Len(last'.calls) :
                   last'.calls[i] = Call("delete", "namespace", None, tenants[id].k8s_namespace)
             /\ tenants[id].k8s_namespace \notin DOMAIN nss' ]_vars

\* C30: a reject deletes the tenant's namespace with everything in it; when
\* the namespace does not exist (the delete is answered 404) the reject
\* still answers ok and changes nothing in the cluster; any other error of
\* the delete is raised and the namespace stays.
C30_DeleteToleratesNotFound ==
    [][ (last'.op = "reject" /\ last'.result \notin {Forbidden, "NotFound"})
        => LET ns == last'.ns
           IN  /\ last'.calls = <<Call("delete", "namespace", None, ns)>>
               /\ fault' = NoFault
                  => /\ last'.result = "ok"
                     /\ last'.http = 200
                     /\ DOMAIN nss' = DOMAIN nss \ {ns}
                     /\ \A m \in DOMAIN nss' : nss'[m] = nss[m]
               /\ fault' # NoFault
                  => /\ last'.result = ApiException(fault'.status)
                     /\ last'.http = 500
                     /\ nss' = nss ]_vars

\* a tenant that was never approved is rejected: its namespace does not
\* exist, the delete is answered 404 and the reject answers ok
C30_Witness ==
    /\ last.op = "reject"
    /\ last.result = "ok"
    /\ prev.op = "register"
    /\ prev.result = "ok"
    /\ nss = <<>>
    /\ tenants[last.tenant_id].status = "rejected"

\* ---------------------------------------------------------------------
\* Requests of principals other than a tenant user bound to a namespace
\* ---------------------------------------------------------------------

\* C34: a promote that found a preview and an active Deployment, and so
\* patched both, answers ok with the names of the promoted and the demoted
\* Deployment.
C34_PromoteOfBothSucceeds ==
    ( /\ last.op = "promote"
      /\ \E i \in 1..Len(last.calls) : last.calls[i].verb = "patch"
      /\ last.promoted # None
      /\ last.demoted # None )
    => /\ last.result = "ok"
       /\ last.http = 200

\* C35: while a rollback that found an active and a preview Deployment
\* runs, at least one Deployment of the application has role=active.
C35_RollbackKeepsAnActive ==
    \A w \in Workers :
        ( /\ inflight[w].op = "rollback"
          /\ inflight[w].active # None
          /\ inflight[w].preview # None )
        => WithRole(deps, inflight[w].ns, inflight[w].name, "active") # {}

\* contexts get_current_context can return besides a tenant user: a user
\* whose token carries no namespace, and the platform administrator
AnyPrincipals ==
    { [role |-> "pending_user", k8s_namespace |-> None],
      [role |-> "platform_admin", k8s_namespace |-> DefaultNs],
      [role |-> "platform_admin", k8s_namespace |-> None] }

DeployAs ==
    /\ \E ctx \in AnyPrincipals, spec \in AppSpecs : deploy_app(ctx, spec)
    /\ prev' = Summary(last)
    /\ UNCHANGED <<inflight, tenantVars>>

ScaleAs ==
    /\ \E ctx \in AnyPrincipals, req \in ScaleRequests :
          /\ req.namespace = Or(ctx.k8s_namespace, DefaultNs)
          /\ scale_app(ctx, req)
    /\ prev' = Summary(last)
    /\ UNCHANGED <<inflight, tenantVars>>

StatusAs ==
    /\ \E ctx \in AnyPrincipals, name \in DepNames \cup {None} : apps_status(ctx, name)
    /\ prev' = Summary(last)
    /\ UNCHANGED <<inflight, tenantVars>>

NextPrincipals ==
    \/ DeployAs
    \/ ScaleAs
    \/ StatusAs

SpecPrincipals == Init /\ [][NextPrincipals]_vars

\* C36: a deploy that answers ok made all its calls, for the Deployment and
\* for the Service, in one namespace.
C36_DeployInOneNamespace ==
    (last.op = "deploy" /\ last.result = "ok")
    => \A i, j \in 1..Len(last.calls) : last.calls[i].ns = last.calls[j].ns

NonPrivileged(ctx) == Lower(ctx.role) \notin {"admin", "platform_admin"}

\* C37: a scale or status request of a non-privileged principal whose token
\* carries no namespace makes no call to the cluster.
C37_UnboundMakesNoCall ==
    ( /\ last.op \in {"scale", "status"}
      /\ NonPrivileged(last.ctx)
      /\ last.ctx.k8s_namespace = None )
    => last.calls = <<>>

\* C33: an approval of a rejected tenant is answered with a conflict and
\* leaves the record as it is; an approval of an active tenant changes
\* neither the record nor the provisioning runs and tasks.
C33_ApproveGuardedByStatus ==
    [][ ( /\ last'.op \in {"approve", "approve_tenant"}
          /\ last'.ctx.role = "platform_admin"
          /\ last'.tenant_id \in DOMAIN tenants )
        => LET t == tenants[last'.tenant_id]
           IN  /\ t.status = "rejected"
                  => /\ last'.result = "Conflict"
                     /\ tenants' = tenants
               /\ t.status = "active"
                  => /\ tenants' = tenants
                     /\ runs' = runs
                     /\ tasks' = tasks ]_vars

\* the approval ended with an exception of a provisioning step
ProvisioningRaised(result) == BackendError(result) \/ result = "KeyError('rbac')"

\* C38: an approval in which a provisioning step raised leaves the store as
\* it was: the tenant's status and namespace are unchanged and no
\* ProvisioningRun row and no task is added.
C38_FailedApprovalChangesNoRecord ==
    [][ ( /\ last'.op \in {"approve", "approve_tenant"}
          /\ ProvisioningRaised(last'.result) )
        => /\ tenants' = tenants
           /\ runs' = runs
           /\ tasks' = tasks ]_vars

\* an approval of a pending tenant failed after it had created part of the
\* bundle; the tenant is still pending, bound to its registered namespace,
\* and has no run
C38_Witness ==
    /\ last.op = "approve"
    /\ last.result = ApiException(500)
    /\ last.ns \in DOMAIN nss
    /\ nss[last.ns] # {}
    /\ tenants[last.tenant_id].status = "pending"
    /\ tenants[last.tenant_id].k8s_namespace # last.ns
    /\ RunsOf(runs, last.tenant_id) = {}

\* ---------------------------------------------------------------------
\* The tenant registry: registrations, approvals and rejects by the platform
\* administrator that name any record of the store, the seeded one included;
\* the queued provisioning tasks do not touch the records and stay queued
\* ---------------------------------------------------------------------

AnyCompanies == {"Demo", "demo"}

AnyRawNamespaces == {"demo", "Default"}

AnyTenantIds == 1..MaxTenants

\* the administrator seeded at startup
PlatformAdmin == [role |-> "platform_admin", k8s_namespace |-> DefaultNs]

RegisterAny ==
    /\ nextId <= MaxTenants
    /\ \E company \in AnyCompanies, raw \in AnyRawNamespaces :
          LET r == register(tenants, runs, nextId, company, raw)
          IN  /\ tenants' = r.tenants
              /\ runs' = r.runs
              /\ nextId' = r.nextId
              /\ audit' = r.audit
              /\ last' = TenantRequest("register", Anonymous, r.tenant_id, company, r.ns, r)
    /\ fault' = NoFault
    /\ prev' = Summary(last)
    /\ UNCHANGED <<deps, svcs, inflight, nss, tasks>>

ApproveAny ==
    /\ Len(runs) < MaxRuns
    /\ \E tenant_id \in AnyTenantIds :
          LET ctx == PlatformAdmin
              r == approve(tenants, nss, runs, ctx, tenant_id, NoFault)
          IN  /\ tenants' = r.tenants
              /\ nss' = r.nss
              /\ runs' = r.runs
              /\ tasks' = tasks \o r.queued
              /\ audit' = r.audit
              /\ last' = TenantRequest("approve", ctx, tenant_id,
                                       IF tenant_id \in DOMAIN tenants
                                       THEN tenants[tenant_id].name ELSE None,
                                       r.ns, r)
    /\ fault' = NoFault
    /\ prev' = Summary(last)
    /\ UNCHANGED <<deps, svcs, inflight, nextId>>

RejectAny ==
    /\ \E tenant_id \in AnyTenantIds :
          LET ctx == PlatformAdmin
              r == reject(tenants, nss, runs, ctx, tenant_id, NoFault)
          IN  /\ tenants' = r.tenants
              /\ nss' = r.nss
              /\ audit' = r.audit
              /\ last' = TenantRequest("reject", ctx, tenant_id,
                                       IF tenant_id \in DOMAIN tenants
                                       THEN tenants[tenant_id].name ELSE None,
                                       r.ns, r)
    /\ fault' = NoFault
    /\ prev' = Summary(last)
    /\ UNCHANGED <<deps, svcs, inflight, nextId, runs, tasks>>

RejectTenantAny ==
    /\ \E tenant_id \in AnyTenantIds :
          LET ctx == PlatformAdmin
              r == reject_tenant(tenants, nss, runs, ctx, tenant_id)
          IN  /\ tenants' = r.tenants
              /\ audit' = r.audit
              /\ last' = TenantRequest("reject_tenant", ctx, tenant_id,
                                       IF tenant_id \in DOMAIN tenants
                                       THEN tenants[tenant_id].name ELSE None,
                                       r.ns, r)
    /\ fault' = NoFault
    /\ prev' = Summary(last)
    /\ UNCHANGED <<deps, svcs, inflight, nss, nextId, runs, tasks>>

NextRegistry ==
    \/ RegisterAny
    \/ ApproveAny
    \/ RejectAny
    \/ RejectTenantAny

SpecRegistry == InitTenant /\ [][NextRegistry]_vars

C32_NamesAndNamespacesUnique ==
    \A i, j \in DOMAIN tenants :
        i # j => /\ tenants[i].name # tenants[j].name
                 /\ tenants[i].k8s_namespace # tenants[j].k8s_namespace

\* two records whose names differ in case only: the approval of the second
\* asked for the namespace the first is bound to and was refused by the store
C32_Witness ==
    /\ last.op = "approve"
    /\ last.result = "IntegrityError"
    /\ Cardinality(DOMAIN tenants) = 2
    /\ \E j \in DOMAIN tenants : tenants[j].k8s_namespace = last.ns
    /\ tenants[last.tenant_id].k8s_namespace # last.ns

====
